---- MODULE Spec2Model ----
(***************************************************************************)
(* The local code search engine of app/code_search.py (CodeSearcher).      *)
(*                                                                         *)
(* A text is a sequence of one-character strings.  Offsets are 0-based as  *)
(* in Python (a match is a pair start/end with the end excluded), line     *)
(* numbers are 1-based.  One behaviour of the model is one call of a       *)
(* search entry point on one directory tree.                               *)
(***************************************************************************)
EXTENDS Integers, Sequences, FiniteSets, TLC

(***************************************************************************)
(* Bounds of the model.                                                    *)
(***************************************************************************)
MaxLen == 3        \* longest content of a file searched alone
MaxPat == 2        \* longest pattern
MaxCtx == 1        \* largest snippet_context
MaxCap == 2        \* largest max_results
MaxFiles == 2      \* most files of a tree
WalkLen == 2       \* longest content of a file of a traversed tree
SnipLen == 4       \* longest content of a file searched for a snippet
MaxRegex == 3      \* longest anchored regex
MaxDirs == 3       \* most directories of a tree whose structure is built
MaxDepthArg == 2   \* largest max_depth
MaxPath == 4       \* longest path given to _is_file_type_matched
MaxTags == 2       \* most tags of a type filter
MaxNow == 3        \* how far the clock runs, in seconds
MaxTtl == 2        \* largest ttl and default_ttl
MaxCapacity == 2   \* largest capacity of a rate limiter, in tokens
MaxLog == 5        \* is_allowed calls between two clears of a rate limiter
MaxRun == 300      \* longest run of one character in a file name
MaxEdge == 1       \* characters before and after the runs of a file name
MaxStatusLines == 2 \* lines of the git status output
MaxItems == 2      \* entries of a directory whose listing is followed step by step
MaxThreads == 2    \* threads calling is_allowed at the same time
MaxName == 3       \* longest owner and repo name

NL == "\n"

\* The characters of a file searched alone, and those of a pattern: the same
\* and two regex metacharacters.
Alphabet == {"a", "A", " ", NL}
PatAlphabet == Alphabet \cup {".", "("}

\* The characters of the files of a traversed tree, and the patterns searched
\* there: a letter, and "(", which is no regular expression.
WalkAlphabet == {"a"}
WalkPatterns == {<<"a">>, <<"(">>}

\* The characters of the files of a directory with unreadable files.
LineAlphabet == {"a", NL}

\* The characters of the anchored patterns.
AnchorAlphabet == {"a", "^", "$"}

Strs(A, n) == UNION {[1..m -> A] : m \in 0..n}

Min(a, b) == IF a < b THEN a ELSE b
Max(a, b) == IF a > b THEN a ELSE b

(***************************************************************************)
(* Python string operations.                                               *)
(***************************************************************************)
\* str.lower() on one character.
lower(c) == IF c = "A" THEN "a" ELSE c

\* The characters str.rstrip() (no argument) removes: whitespace.
Whitespace == {" ", NL}

RECURSIVE rstrip(_)
rstrip(s) ==
    IF s # <<>> /\ s[Len(s)] \in Whitespace
    THEN rstrip(SubSeq(s, 1, Len(s) - 1))
    ELSE s

\* s[lo:hi] for 0 <= lo, clipped like a Python slice.
slice(s, lo, hi) == SubSeq(s, lo + 1, Min(hi, Len(s)))

\* s.count('\n')
count_nl(s) == Cardinality({i \in 1..Len(s) : s[i] = NL})

\* find() where rfind() is meant: the offset of the first newline.
rfind_nl_first(s) ==
    IF \E i \in 1..Len(s) : s[i] = NL
    THEN (CHOOSE i \in 1..Len(s) : s[i] = NL /\ \A j \in 1..(i-1) : s[j] # NL) - 1
    ELSE -1

\* s.rfind('\n'): the 0-based offset of the last newline, -1 when there is none.
rfind_nl(s) ==
    IF \E i \in 1..Len(s) : s[i] = NL
    THEN (CHOOSE i \in 1..Len(s) : s[i] = NL /\ \A j \in (i+1)..Len(s) : s[j] # NL) - 1
    ELSE -1

\* s.find('\n') + 1: the 1-based index of the first newline, 0 when there is none.
first_nl(s) ==
    IF \E i \in 1..Len(s) : s[i] = NL
    THEN CHOOSE i \in 1..Len(s) : s[i] = NL /\ \A j \in 1..(i-1) : s[j] # NL
    ELSE 0

\* f.readlines(): the lines of the file, each with its terminator.
RECURSIVE readlines(_)
readlines(content) ==
    IF content = <<>> THEN <<>>
    ELSE LET n == first_nl(content) IN
         IF n = 0 THEN <<content>>
         ELSE <<SubSeq(content, 1, n)>> \o readlines(SubSeq(content, n + 1, Len(content)))

\* content.split('\n'): always at least one piece, terminators removed.
RECURSIVE split(_)
split(content) ==
    LET n == first_nl(content) IN
    IF n = 0 THEN <<content>>
    ELSE <<SubSeq(content, 1, n - 1)>> \o split(SubSeq(content, n + 1, Len(content)))

\* '\n'.join(lines)
RECURSIVE join(_)
join(lines) ==
    IF lines = <<>> THEN <<>>
    ELSE IF Len(lines) = 1 THEN lines[1]
    ELSE lines[1] \o <<NL>> \o join(Tail(lines))

(***************************************************************************)
(* Python's re module, for the patterns of the model: a pattern is a       *)
(* sequence of characters; compiled, each is a literal, '.', '^' or '$'.   *)
(***************************************************************************)
\* The keyword compiled without re.escape(): '.' keeps its special meaning.
re_escape_dot(pat) ==
    [i \in 1..Len(pat) |->
        IF pat[i] = "." THEN [kind |-> "any", ch |-> "."]
        ELSE [kind |-> "lit", ch |-> pat[i]]]

\* re.escape(): every character of the pattern is matched literally.
re_escape(pat) == [i \in 1..Len(pat) |-> [kind |-> "lit", ch |-> pat[i]]]

\* The program re.compile() builds for an unescaped pattern.
re_parse(pat) ==
    [i \in 1..Len(pat) |->
        CASE pat[i] = "." -> [kind |-> "any", ch |-> "."]
          [] pat[i] = "^" -> [kind |-> "bol", ch |-> "^"]
          [] pat[i] = "$" -> [kind |-> "eol", ch |-> "$"]
          [] OTHER -> [kind |-> "lit", ch |-> pat[i]]]

\* re.compile() raises re.error: an opening parenthesis that is never closed.
re_error(pat) == \E i \in 1..Len(pat) : pat[i] = "("

\* Where a match of prog[i..] at offset pos ends, -1 when there is none.  The
\* flags are those the code compiles with: ic is re.IGNORECASE; re.DOTALL and
\* re.MULTILINE decide '.', '^' and '$'.
RECURSIVE match_at(_, _, _, _, _)
match_at(prog, i, ic, buf, pos) ==
    IF i > Len(prog) THEN pos
    ELSE LET it == prog[i] IN
         CASE it.kind = "lit" ->
                IF pos < Len(buf)
                   /\ (IF ic THEN lower(buf[pos + 1]) = lower(it.ch)
                             ELSE buf[pos + 1] = it.ch)
                THEN match_at(prog, i + 1, ic, buf, pos + 1) ELSE -1
           [] it.kind = "any" ->
                IF pos < Len(buf) THEN match_at(prog, i + 1, ic, buf, pos + 1) ELSE -1
           [] it.kind = "bol" ->
                IF pos = 0 \/ buf[pos] = NL
                THEN match_at(prog, i + 1, ic, buf, pos) ELSE -1
           [] OTHER ->
                IF pos = Len(buf) \/ buf[pos + 1] = NL
                THEN match_at(prog, i + 1, ic, buf, pos) ELSE -1

\* pattern.finditer(buf): the matches, left to right, none overlapping: the scan
\* resumes at the end of a match (one further after an empty match).
RECURSIVE finditer_from(_, _, _, _)
finditer_from(prog, ic, buf, pos) ==
    IF pos > Len(buf) THEN <<>>
    ELSE LET e == match_at(prog, 1, ic, buf, pos) IN
         IF e = -1 THEN finditer_from(prog, ic, buf, pos + 1)
         ELSE <<[start |-> pos, end |-> e]>>
              \o finditer_from(prog, ic, buf, IF e > pos THEN e ELSE pos + 1)

finditer(prog, ic, buf) == finditer_from(prog, ic, buf, 0)


(***************************************************************************)
(* File types (FileTypeClassifier).                                        *)
(***************************************************************************)
\* str.lower() on the type tags and extensions of the model.
lower_str(s) ==
    CASE s = "Python" -> "python"
      [] s = ".PY" -> ".py"
      [] s = ".MD" -> ".md"
      [] OTHER -> s

\* self.supported_file_types
supported_file_types ==
    [python |-> {".py"}, javascript |-> {".js", ".jsx"}, typescript |-> {".ts", ".tsx"},
     java |-> {".java"}, csharp |-> {".cs"}, cpp |-> {".cpp", ".h", ".hpp"},
     go |-> {".go"}, rust |-> {".rs"}, html |-> {".html"}, css |-> {".css"},
     markdown |-> {".md"}, json |-> {".json"}, yaml |-> {".yaml", ".yml"},
     xml |-> {".xml"}]

\* dict.get(file_type.lower(), [])
_get_file_extensions(file_type) ==
    IF lower_str(file_type) \in DOMAIN supported_file_types
    THEN supported_file_types[lower_str(file_type)]
    ELSE {}

\* The type filter ignored: every file matches.
_is_file_type_matched_all(ext, types) == TRUE

\* ext is os.path.splitext(file_path)[1]; types is `file_types or []`.
_is_file_type_matched(ext, types) ==
    IF types = <<>> THEN TRUE
    ELSE \E i \in 1..Len(types) : lower_str(ext) \in _get_file_extensions(types[i])

(***************************************************************************)
(* Context windows and results.                                            *)
(***************************************************************************)
\* [... lines[i] ... for i in range(lo, hi)] raises IndexError when an index
\* lies past the end of the list.
range_raises(lines, lo, hi) == \E i \in lo..(hi - 1) : i >= Len(lines)

\* [{"line_num": i + 1, "content": lines[i]} for i in range(lo, hi)], the
\* content stripped with rstrip() when strip is set.
context_lines(lines, lo, hi, strip) ==
    [j \in 1..(hi - lo) |->
        [line_num |-> lo + j,
         content |-> IF strip THEN rstrip(lines[lo + j]) ELSE lines[lo + j]]]

\* start_line = max(0, line_num - snippet_context - 1)
start_line(line_num, k) == Max(0, line_num - k - 1)

\* end_line = min(len(lines), line_num + snippet_context)
end_line(lines, line_num, k) == Min(Len(lines), line_num + k)

\* One result of search_in_file: the match m of the 1-based line line_num.
keyword_result(path, lines, line_num, m, k) ==
    LET line == lines[line_num] IN
    [file_path |-> path,
     line_num |-> line_num,
     match_text |-> slice(line, m.start, m.end),
     context |->
        [pre |-> context_lines(lines, start_line(line_num, k), line_num - 1, TRUE),
         match |-> [line_num |-> line_num, content |-> rstrip(line),
                    start_pos |-> m.start, end_pos |-> m.end],
         post |-> context_lines(lines, line_num, end_line(lines, line_num, k), TRUE)]]

\* The loop of search_in_file over the lines from the n-th on.
RECURSIVE search_lines(_, _, _, _, _, _)
search_lines(path, lines, n, prog, ic, k) ==
    IF n > Len(lines) THEN <<>>
    ELSE LET ms == finditer(prog, ic, lines[n]) IN
         [j \in 1..Len(ms) |-> keyword_result(path, lines, n, ms[j], k)]
         \o search_lines(path, lines, n + 1, prog, ic, k)

\* search_in_file: no result for a file that cannot be read.
search_in_file(file, keyword, cs, k) ==
    IF file.read # "ok" THEN <<>>
    ELSE search_lines(file.path, readlines(file.content), 1,
                      re_escape(keyword), ~cs, k)

\* One result of search_code_snippet: the match m of the buffer content.
snippet_result(path, content, snippet, m, k) ==
    LET line_num == count_nl(slice(content, 0, m.start)) + 1
        lines == split(content)
        n == count_nl(snippet)
        bol == rfind_nl(slice(content, 0, m.start))
    IN
    [file_path |-> path,
     line_num |-> line_num,
     match_text |-> slice(content, m.start, m.end),
     context |->
        [pre |-> context_lines(lines, start_line(line_num, k), line_num - 1, FALSE),
         match |-> [line_num |-> line_num,
                    content |-> join(slice(lines, line_num - 1, line_num + n)),
                    start_pos |-> m.start - bol - 1, end_pos |-> m.end - bol - 1],
         post |-> context_lines(lines, line_num + n, end_line(lines, line_num, k), FALSE)]]

\* The buffer search_by_regex matches against: '\n'.join(f.readlines()).
regex_buffer(content) == join(readlines(content))

\* line_num of search_by_regex for the match m of the buffer.
regex_line_num(buffer, m) == count_nl(slice(buffer, 0, m.start)) + 1

\* Building the context of a regex match raises IndexError.
regex_raises(lines, buffer, m, k) ==
    LET line_num == regex_line_num(buffer, m) IN
    \/ range_raises(lines, start_line(line_num, k), line_num - 1)
    \/ range_raises(lines, line_num, end_line(lines, line_num, k))

\* One result of search_by_regex: the match m of the buffer.
regex_result(path, lines, buffer, m, k) ==
    LET line_num == regex_line_num(buffer, m)
        bol == rfind_nl(slice(buffer, 0, m.start))
    IN
    [file_path |-> path,
     line_num |-> line_num,
     match_text |-> slice(buffer, m.start, m.end),
     context |->
        [pre |-> context_lines(lines, start_line(line_num, k), line_num - 1, TRUE),
         match |-> [line_num |-> line_num,
                    content |-> rstrip(slice(buffer, m.start, m.end)),
                    start_pos |-> m.start - bol - 1, end_pos |-> m.end - bol - 1],
         post |-> context_lines(lines, line_num, end_line(lines, line_num, k), TRUE)]]


\* The cap tested with `>` instead of `>=`.
cap_reached_late(res, cap) == Len(res) > cap

\* `if len(results) >= max_results`
cap_reached(res, cap) == Len(res) >= cap

\* What the loop over the matches of one file does in search_code_snippet and
\* search_by_regex, from the i-th match on: a match whose context cannot be
\* built raises, any other is appended, and the call returns results[:cap] as
\* soon as the cap is reached.  status: "next" (go on with the next file),
\* "returned" or "raised".
RECURSIVE match_loop(_, _, _, _)
match_loop(attempts, i, acc, cap) ==
    IF i > Len(attempts) THEN [results |-> acc, status |-> "next"]
    ELSE IF attempts[i].raises THEN [results |-> acc, status |-> "raised"]
    ELSE LET r == Append(acc, attempts[i].result) IN
         IF cap_reached(r, cap)
         THEN [results |-> slice(r, 0, cap), status |-> "returned"]
         ELSE match_loop(attempts, i + 1, r, cap)

\* The matches of one readable file in search_code_snippet, each with its result.
snippet_attempts(file, snippet, cs, k) ==
    LET ms == finditer(re_escape(snippet), ~cs, file.content) IN
    [j \in 1..Len(ms) |->
        [raises |-> FALSE,
         result |-> snippet_result(file.path, file.content, snippet, ms[j], k)]]

\* The matches of one readable file in search_by_regex, each with its result.
regex_attempts(file, regex_pattern, k) ==
    LET lines == readlines(file.content)
        buffer == regex_buffer(file.content)
        ms == finditer(re_parse(regex_pattern), FALSE, buffer)
    IN
    [j \in 1..Len(ms) |->
        IF regex_raises(lines, buffer, ms[j], k)
        THEN [raises |-> TRUE, result |-> <<>>]
        ELSE [raises |-> FALSE,
              result |-> regex_result(file.path, lines, buffer, ms[j], k)]]

(***************************************************************************)
(* The directory tree.  fs.dirs lists the directories below (and           *)
(* including) the root in the order os.walk yields them, top-down; each    *)
(* has its parent's index (0 for the root) and its files.  A file has its  *)
(* path, its extension, what open()/read() does ("ok", "PermissionError"   *)
(* or "UnicodeDecodeError") and, when it can be read, its content.         *)
(***************************************************************************)
ReadOutcomes == {"ok", "PermissionError", "UnicodeDecodeError"}
Exts == {".py", ".md"}
TypeFilters == {<<>>, <<"python">>}

\* The attributes of the files over the contents cs.
FileAttrs(cs) ==
    {[ext |-> e, read |-> "ok", content |-> c] : e \in Exts, c \in cs}
    \cup {[ext |-> e, read |-> r, content |-> <<>>] :
             e \in Exts, r \in ReadOutcomes \ {"ok"}}

\* A directory: its parent's index (0 for the root) and its files, file j of
\* directory d having the path <<d, j>>.
MakeDir(d, parent, fl) ==
    [parent |-> parent,
     files |-> [j \in 1..Len(fl) |->
                   [path |-> <<d, j>>, ext |-> fl[j].ext,
                    read |-> fl[j].read, content |-> fl[j].content]]]

\* The trees of at most n files: a root alone, or a root and a sub-directory.
Trees(attrs, n) ==
    UNION {{<<MakeDir(1, 0, fl)>>}
           \cup {<<MakeDir(1, 0, SubSeq(fl, 1, cut)),
                   MakeDir(2, 1, SubSeq(fl, cut + 1, Len(fl)))>> : cut \in 0..Len(fl)} :
           fl \in Strs(attrs, n)}

\* All files of the tree, in the order of the traversal.
RECURSIVE tree_files_from(_, _)
tree_files_from(dirs, d) ==
    IF d > Len(dirs) THEN <<>> ELSE dirs[d].files \o tree_files_from(dirs, d + 1)

tree_files(dirs) == tree_files_from(dirs, 1)

(***************************************************************************)
(* get_file_structure.  The names of a directory are taken to sort its     *)
(* files (in their order) before its sub-directories (in theirs), and      *)
(* every directory can be listed.                                          *)
(***************************************************************************)
RECURSIVE seq_of(_, _)
seq_of(S, f) ==
    IF S = {} THEN <<>>
    ELSE LET m == CHOOSE x \in S : \A y \in S : x <= y
         IN <<f[m]>> \o seq_of(S \ {m}, f)

RECURSIVE _build_structure(_, _, _, _, _)
_build_structure(dirs, d, current_depth, types, depth_cap) ==
    IF current_depth > depth_cap
    THEN [name |-> d, type |-> "directory", children |-> <<>>]
    ELSE LET kept == SelectSeq(dirs[d].files, LAMBDA f : _is_file_type_matched(f.ext, types))
             subs == {c \in DOMAIN dirs : dirs[c].parent = d}
             built == [c \in subs |->
                          _build_structure(dirs, c, current_depth + 1, types, depth_cap)]
         IN [name |-> d, type |-> "directory",
             children |->
                 [j \in 1..Len(kept) |->
                     [name |-> kept[j].path, type |-> "file",
                      size |-> Len(kept[j].content)]]
                 \o seq_of(subs, built)]

(***************************************************************************)
(* One call of an entry point.                                             *)
(***************************************************************************)
VARIABLES
    fs,               \* [exists, dirs]: the tree at `directory`
    entry,            \* the entry point called
    pattern,          \* keyword, snippet or regex_pattern
    case_sensitive,
    snippet_context,
    max_results,
    file_types,       \* `file_types or []`
    max_depth,
    pc,               \* "call", "walk" (inside the os.walk loops), "done"
    dir_idx,          \* the directory os.walk yielded last, 0 before the first
    file_idx,         \* how many of its files the inner loop has taken
    results,          \* the list `results`
    structure,        \* what get_file_structure returned
    outcome,          \* "none", "returned" or "raised"
    opened,           \* the paths of the files opened, in order
    visited,          \* the directories os.walk yielded, in order
    ret,              \* what a call of a function of utils.py returned
    now,              \* datetime.utcnow(), in seconds
    cache,            \* Cache.cache: cache_key -> [value, expires_at]
    default_ttl,      \* Cache.default_ttl
    last_set,         \* key -> the last set() of the key, live until delete() or clear()
    op,               \* the call of utils.py made last
    wrap_ttl,         \* the ttl of @cached(ttl)
    last_exec,        \* <<func, args>> -> the last execution of func(*args)
    capacity,         \* RateLimiter.capacity, in tokens
    refill_rate,      \* RateLimiter.refill_rate, in 1/Scale tokens per second
    tokens,           \* RateLimiter.tokens: key -> bucket, amounts in 1/Scale tokens
    log,              \* the is_allowed calls since the limiter was fresh or cleared
    arg,              \* the arguments and the environment of a call of utils.py or vcs.py
    proc              \* the running calls: position and local variables of each

\* The state of the objects of utils.py.
limiter_vars == <<capacity, refill_rate, tokens, log>>

call_vars == <<arg, proc>>

util_vars == <<ret, now, cache, default_ttl, last_set, op, wrap_ttl, last_exec,
               limiter_vars, call_vars>>

vars == <<fs, entry, pattern, case_sensitive, snippet_context, max_results,
          file_types, max_depth, pc, dir_idx, file_idx, results, structure,
          outcome, opened, visited, util_vars>>

request == <<fs, entry, pattern, case_sensitive, snippet_context, max_results,
             file_types, max_depth>>

DefaultMaxResults == 100
DefaultContext == 3
DefaultMaxDepth == 3

SearchEntries == {"search_in_directory", "search_code_snippet", "search_by_regex"}
ContentEntries == {"search_code_snippet", "search_by_regex"}

\* The directories os.walk yields: none when the root does not exist (os.walk
\* swallows the error of scandir, its onerror being None).
walk_dirs == IF fs.exists THEN fs.dirs ELSE <<>>

dir_done == IF dir_idx = 0 THEN TRUE ELSE file_idx = Len(walk_dirs[dir_idx].files)
file == walk_dirs[dir_idx].files[file_idx + 1]

DefaultTtl == 3600

None == "None"
CacheKeys == {"k1", "k2"}
CacheValues == {"v1", "v2", None}

\* An Optional[int]: <<>> is None, <<n>> the integer n.
NoTtl == <<>>
OptTtl(S) == {NoTtl} \cup {<<n>> : n \in S}

\* No set() of the key is in force.
NoSet == [live |-> FALSE, value |-> None, ttl |-> NoTtl, at |-> 0]

\* No function of utils.py has been called: the cache is empty.
\* Token amounts are counted in 1/Scale tokens.
Scale == 2

DefaultCapacity == 60

\* rate_limiter = RateLimiter(capacity=60, refill_rate=1.0), no bucket yet
\* no call of the path, status, clone and thread models is running
CallIdle ==
    /\ arg = <<>>
    /\ proc = <<>>

LimiterIdle ==
    /\ capacity = DefaultCapacity
    /\ refill_rate = Scale
    /\ tokens = <<>>
    /\ log = <<>>

UtilIdle ==
    /\ ret = "none"
    /\ now = 0
    /\ cache = <<>>
    /\ default_ttl = DefaultTtl
    /\ last_set = [k \in CacheKeys |-> NoSet]
    /\ op = [name |-> "none"]
    /\ wrap_ttl = NoTtl
    /\ last_exec = <<>>
    /\ LimiterIdle
    /\ CallIdle

Start ==
    /\ UtilIdle
    /\ pc = "call"
    /\ dir_idx = 0 /\ file_idx = 0
    /\ results = <<>> /\ structure = <<>>
    /\ outcome = "none"
    /\ opened = <<>> /\ visited = <<>>

\* search_by_regex: re.compile fails; the error is logged and [] is returned.
InvalidPattern ==
    /\ pc = "call" /\ entry = "search_by_regex"
    /\ re_error(pattern)
    /\ pc' = "done" /\ outcome' = "returned" /\ results' = <<>>
    /\ UNCHANGED <<util_vars, request, dir_idx, file_idx, structure, opened, visited>>

\* The pattern compiles (always, once escaped): the traversal begins.
Begin ==
    /\ pc = "call" /\ entry \in SearchEntries
    /\ ~(entry = "search_by_regex" /\ re_error(pattern))
    /\ pc' = "walk"
    /\ UNCHANGED <<util_vars, request, dir_idx, file_idx, results, structure, outcome, opened, visited>>

\* os.walk yields the next directory.
WalkDir ==
    /\ pc = "walk" /\ dir_done
    /\ dir_idx < Len(walk_dirs)
    /\ dir_idx' = dir_idx + 1 /\ file_idx' = 0
    /\ visited' = Append(visited, dir_idx + 1)
    /\ UNCHANGED <<util_vars, request, pc, results, structure, outcome, opened>>

\* The file does not pass the type filter: `continue`.
SkipFile ==
    /\ pc = "walk" /\ ~dir_done
    /\ ~_is_file_type_matched(file.ext, file_types)
    /\ file_idx' = file_idx + 1
    /\ UNCHANGED <<util_vars, request, pc, dir_idx, results, structure, outcome, opened, visited>>

\* search_in_directory: one file is searched, its results are appended, and
\* the call returns results[:max_results] when the cap is reached.
SearchKeyword ==
    /\ pc = "walk" /\ ~dir_done /\ entry = "search_in_directory"
    /\ _is_file_type_matched(file.ext, file_types)
    /\ opened' = Append(opened, file.path)
    /\ LET r == results \o search_in_file(file, pattern, case_sensitive, snippet_context) IN
       IF cap_reached(r, max_results)
       THEN /\ results' = slice(r, 0, max_results)
            /\ pc' = "done" /\ outcome' = "returned"
            /\ UNCHANGED file_idx
       ELSE /\ results' = r
            /\ file_idx' = file_idx + 1
            /\ UNCHANGED <<pc, outcome>>
    /\ UNCHANGED <<util_vars, request, dir_idx, structure, visited>>

\* search_code_snippet and search_by_regex: the file cannot be read; the error
\* is logged and the loop goes on.
ReadError ==
    /\ pc = "walk" /\ ~dir_done /\ entry \in ContentEntries
    /\ _is_file_type_matched(file.ext, file_types)
    /\ file.read # "ok"
    /\ opened' = Append(opened, file.path)
    /\ file_idx' = file_idx + 1
    /\ UNCHANGED <<util_vars, request, pc, dir_idx, results, structure, outcome, visited>>

\* search_code_snippet and search_by_regex: one readable file is searched.
SearchContent(e, attempts) ==
    /\ pc = "walk" /\ ~dir_done /\ entry = e
    /\ _is_file_type_matched(file.ext, file_types)
    /\ file.read = "ok"
    /\ opened' = Append(opened, file.path)
    /\ LET got == match_loop(attempts, 1, results, max_results) IN
       /\ results' = got.results
       /\ IF got.status = "next"
          THEN file_idx' = file_idx + 1 /\ UNCHANGED <<pc, outcome>>
          ELSE pc' = "done" /\ outcome' = got.status /\ UNCHANGED file_idx
    /\ UNCHANGED <<util_vars, request, dir_idx, structure, visited>>

SearchSnippet ==
    SearchContent("search_code_snippet",
                  snippet_attempts(file, pattern, case_sensitive, snippet_context))

SearchRegex ==
    SearchContent("search_by_regex", regex_attempts(file, pattern, snippet_context))

\* os.walk is exhausted: `return results`.
Return ==
    /\ pc = "walk" /\ dir_done
    /\ dir_idx = Len(walk_dirs)
    /\ pc' = "done" /\ outcome' = "returned"
    /\ UNCHANGED <<util_vars, request, dir_idx, file_idx, results, structure, opened, visited>>

\* get_file_structure: os.listdir of a root that does not exist raises
\* FileNotFoundError, which is not caught.
GetFileStructure ==
    /\ pc = "call" /\ entry = "get_file_structure"
    /\ pc' = "done"
    /\ IF 0 > max_depth
       THEN /\ outcome' = "returned"
            /\ structure' = [name |-> 1, type |-> "directory", children |-> <<>>]
       ELSE IF ~fs.exists
       THEN outcome' = "raised" /\ UNCHANGED structure
       ELSE /\ outcome' = "returned"
            /\ structure' = _build_structure(fs.dirs, 1, 0, file_types, max_depth)
    /\ UNCHANGED <<util_vars, request, dir_idx, file_idx, results, opened, visited>>

\* search_in_file called on one file.
SearchInFile ==
    /\ pc = "call" /\ entry = "search_in_file"
    /\ LET f == fs.dirs[1].files[1] IN
       /\ opened' = <<f.path>>
       /\ results' = search_in_file(f, pattern, case_sensitive, snippet_context)
    /\ pc' = "done" /\ outcome' = "returned"
    /\ UNCHANGED <<util_vars, request, dir_idx, file_idx, structure, visited>>

(***************************************************************************)
(* Spec: the traversals, over every small tree of one-line files.          *)
(***************************************************************************)
WalkTrees ==
    {[exists |-> TRUE, dirs |-> t] :
        t \in Trees(FileAttrs(Strs(WalkAlphabet, WalkLen)), MaxFiles)}
    \cup {[exists |-> FALSE, dirs |-> <<>>]}

Init ==
    /\ Start
    /\ fs \in WalkTrees
    /\ file_types \in TypeFilters
    /\ \/ /\ entry \in SearchEntries
          /\ pattern \in WalkPatterns
          /\ case_sensitive = (entry = "search_by_regex")
          /\ snippet_context = DefaultContext
          /\ max_results \in 1..MaxCap
          /\ max_depth = DefaultMaxDepth
       \/ /\ entry = "get_file_structure"
          /\ pattern = <<>> /\ case_sensitive = FALSE
          /\ snippet_context = DefaultContext
          /\ max_results = DefaultMaxResults
          /\ max_depth = DefaultMaxDepth

NextFile ==
    \/ InvalidPattern
    \/ Begin
    \/ WalkDir
    \/ SearchKeyword
    \/ SearchSnippet
    \/ SearchRegex
    \/ Return

NextSoft == NextFile \/ ReadError

Next == NextSoft \/ SkipFile \/ GetFileStructure

Spec == Init /\ [][Next]_vars

(***************************************************************************)
(* SpecFile: every entry point on a directory holding one readable file,   *)
(* over every content and pattern, with the default max_results.           *)
(***************************************************************************)
OneFile(c) ==
    [exists |-> TRUE,
     dirs |-> <<MakeDir(1, 0, <<[ext |-> ".py", read |-> "ok", content |-> c]>>)>>]

InitFile ==
    /\ Start
    /\ fs \in {OneFile(c) : c \in Strs(Alphabet, MaxLen)}
    /\ file_types = <<>>
    /\ entry \in SearchEntries
    /\ pattern \in Strs(PatAlphabet, MaxPat) \ {<<>>}
    /\ case_sensitive \in (IF entry = "search_by_regex" THEN {TRUE} ELSE BOOLEAN)
    /\ snippet_context \in 0..MaxCtx
    /\ max_results = DefaultMaxResults
    /\ max_depth = DefaultMaxDepth

SpecFile == InitFile /\ [][NextFile]_vars

(***************************************************************************)
(* SpecKeyword: search_in_file on one readable file.                       *)
(***************************************************************************)
InitKeyword ==
    /\ Start
    /\ fs \in {OneFile(c) : c \in Strs(Alphabet, MaxLen)}
    /\ file_types = <<>>
    /\ entry = "search_in_file"
    /\ pattern \in Strs(PatAlphabet, MaxPat) \ {<<>>}
    /\ case_sensitive \in BOOLEAN
    /\ snippet_context \in 0..MaxCtx
    /\ max_results = DefaultMaxResults
    /\ max_depth = DefaultMaxDepth

NextKeyword == SearchInFile

SpecKeyword == InitKeyword /\ [][NextKeyword]_vars

(***************************************************************************)
(* SpecSoft: every entry point on one directory of files of several lines, *)
(* some of which cannot be read.                                           *)
(***************************************************************************)
SoftTrees ==
    {[exists |-> TRUE, dirs |-> <<MakeDir(1, 0, fl)>>] :
        fl \in Strs({a \in FileAttrs(Strs(LineAlphabet, MaxLen)) : a.ext = ".py"},
                    MaxFiles)}

InitSoft ==
    /\ Start
    /\ fs \in SoftTrees
    /\ file_types = <<>>
    /\ entry \in SearchEntries
    /\ pattern \in WalkPatterns
    /\ case_sensitive = (entry = "search_by_regex")
    /\ snippet_context \in 0..MaxCtx
    /\ max_results \in 1..MaxCap
    /\ max_depth = DefaultMaxDepth

SpecSoft == InitSoft /\ [][NextSoft]_vars

(***************************************************************************)
(* SpecSnippet: search_code_snippet on one readable file of several lines. *)
(***************************************************************************)
InitSnippet ==
    /\ Start
    /\ fs \in {OneFile(c) : c \in Strs(LineAlphabet, SnipLen)}
    /\ file_types = <<>>
    /\ entry = "search_code_snippet"
    /\ pattern \in Strs(LineAlphabet, MaxPat) \ {<<>>}
    /\ case_sensitive = TRUE
    /\ snippet_context \in 0..MaxCtx
    /\ max_results = DefaultMaxResults
    /\ max_depth = DefaultMaxDepth

NextSnippet == Begin \/ WalkDir \/ SearchSnippet \/ Return

SpecSnippet == InitSnippet /\ [][NextSnippet]_vars

(***************************************************************************)
(* SpecRegex: search_by_regex with anchored patterns on one readable file  *)
(* of several lines.                                                       *)
(***************************************************************************)
InitRegex ==
    /\ Start
    /\ fs \in {OneFile(c) : c \in Strs(LineAlphabet, SnipLen)}
    /\ file_types = <<>>
    /\ entry = "search_by_regex"
    /\ pattern \in Strs(AnchorAlphabet, MaxRegex) \ {<<>>}
    /\ case_sensitive = TRUE
    /\ snippet_context \in 0..MaxCtx
    /\ max_results = DefaultMaxResults
    /\ max_depth = DefaultMaxDepth

NextRegex == Begin \/ WalkDir \/ SearchRegex \/ Return

SpecRegex == InitRegex /\ [][NextRegex]_vars

(***************************************************************************)
(* SpecStructure: get_file_structure on every tree of at most MaxDirs      *)
(* directories, each holding at most one file, for every max_depth.        *)
(***************************************************************************)
\* The trees of n directories: directory d > 1 lies in a directory before it.
NestedTrees(n) ==
    {[d \in 1..n |-> MakeDir(d, IF d = 1 THEN 0 ELSE par[d], fls[d])] :
        par \in {q \in [1..n -> 0..n] : \A d \in 1..n : q[d] < d /\ (d > 1 => q[d] >= 1)},
        fls \in [1..n -> Strs({a \in FileAttrs({<<>>}) : a.read = "ok"}, 1)]}

InitStructure ==
    /\ Start
    /\ fs \in {[exists |-> TRUE, dirs |-> t] : t \in UNION {NestedTrees(n) : n \in 1..MaxDirs}}
    /\ file_types \in TypeFilters
    /\ entry = "get_file_structure"
    /\ pattern = <<>> /\ case_sensitive = FALSE
    /\ snippet_context = DefaultContext
    /\ max_results = DefaultMaxResults
    /\ max_depth \in (-1)..MaxDepthArg

NextStructure == GetFileStructure

SpecStructure == InitStructure /\ [][NextStructure]_vars

(***************************************************************************)
(* SpecTypes: _is_file_type_matched on a path.  A path is a sequence of    *)
(* pieces: "." and "/" are those characters, any other piece is a run of   *)
(* characters holding neither.                                             *)
(***************************************************************************)
PathAlphabet == {"n", "py", "PY", ".", "/"}
TypeTags == {"python", "Python", "nosuch"}

\* p.rfind(ch) + 1: the index of the last piece ch, 0 when there is none.
rfind(p, ch) ==
    LET S == {i \in 1..Len(p) : p[i] = ch} IN
    IF S = {} THEN 0 ELSE CHOOSE i \in S : \A j \in S : j <= i

\* The extension taken from the first dot of the path on.
splitext_first(p) ==
    LET S == {i \in 1..Len(p) : p[i] = "."} IN
    IF S = {} THEN <<>> ELSE SubSeq(p, CHOOSE i \in S : \A j \in S : i <= j, Len(p))

\* os.path.splitext(p)[1]: the path from its last dot on, when that dot lies
\* after the last separator and after a piece of the file name that is not a
\* dot; empty otherwise.
splitext(p) ==
    LET sepIndex == rfind(p, "/")
        dotIndex == rfind(p, ".")
    IN IF dotIndex > sepIndex
          /\ \E filenameIndex \in (sepIndex + 1)..(dotIndex - 1) : p[filenameIndex] # "."
       THEN SubSeq(p, dotIndex, Len(p))
       ELSE <<>>

\* The extension as a string.  Of the extensions of the paths of the model
\* only ".py" and ".PY" are spelled out; any other is in no set of
\* supported_file_types, whatever its case, and stands as ".n".
ext_name(e) ==
    CASE e = <<>> -> ""
      [] e = <<".", "py">> -> ".py"
      [] e = <<".", "PY">> -> ".PY"
      [] e = <<".">> -> "."
      [] OTHER -> ".n"

\* _is_file_type_matched(file_path, file_types) called on the path `pattern`.
IsFileTypeMatched ==
    /\ pc = "call" /\ entry = "_is_file_type_matched"
    /\ ret' = _is_file_type_matched(ext_name(splitext(pattern)), file_types)
    /\ pc' = "done" /\ outcome' = "returned"
    /\ UNCHANGED <<request, dir_idx, file_idx, results, structure, opened, visited>>
    /\ UNCHANGED <<now, cache, default_ttl, last_set, op, wrap_ttl, last_exec, limiter_vars, call_vars>>

InitTypes ==
    /\ Start
    /\ fs = [exists |-> FALSE, dirs |-> <<>>]
    /\ entry = "_is_file_type_matched"
    /\ pattern \in Strs(PathAlphabet, MaxPath)
    /\ file_types \in Strs(TypeTags, MaxTags)
    /\ case_sensitive = FALSE
    /\ snippet_context = DefaultContext
    /\ max_results = DefaultMaxResults
    /\ max_depth = DefaultMaxDepth

NextTypes == IsFileTypeMatched

SpecTypes == InitTypes /\ [][NextTypes]_vars

(***************************************************************************)
(* utils.py: Cache.  SpecCache: any sequence of get, set, delete, clear    *)
(* and size on a Cache(default_ttl), with the clock running.               *)
(***************************************************************************)
search_vars == <<fs, entry, pattern, case_sensitive, snippet_context, max_results,
                 file_types, max_depth, pc, dir_idx, file_idx, results, structure,
                 outcome, opened, visited>>

\* Cache._get_key: the MD5 digest of the key.
_get_key(key) == <<"md5", key>>

\* d with d[k] = v
dict_set(d, k, v) == [x \in DOMAIN d \cup {k} |-> IF x = k THEN v ELSE d[x]]

\* d without the keys of ks
dict_del(d, ks) == [x \in DOMAIN d \ ks |-> d[x]]

\* `ttl or self.default_ttl`
ttl_or_default(ttl) ==
    IF ttl = NoTtl THEN default_ttl
    ELSE IF ttl[1] = 0 THEN default_ttl ELSE ttl[1]

\* `datetime.utcnow() > item["expires_at"]`
is_expired(item) == now > item.expires_at

\* Cache.get: what it returns and the cache it leaves.
cache_get(key) ==
    LET cache_key == _get_key(key) IN
    IF cache_key \notin DOMAIN cache THEN [ret |-> None, cache |-> cache]
    ELSE IF is_expired(cache[cache_key])
    THEN [ret |-> None, cache |-> dict_del(cache, {cache_key})]
    ELSE [ret |-> cache[cache_key].value, cache |-> cache]

\* Cache.set: the cache it leaves.
cache_set(key, value, ttl) ==
    dict_set(cache, _get_key(key),
             [value |-> value, expires_at |-> now + ttl_or_default(ttl)])

CacheGet(key) ==
    /\ ret' = cache_get(key).ret
    /\ cache' = cache_get(key).cache
    /\ op' = [name |-> "get", key |-> key]
    /\ UNCHANGED <<search_vars, limiter_vars, call_vars, now, default_ttl, last_set, wrap_ttl, last_exec>>

CacheSet(key, value, ttl) ==
    /\ cache' = cache_set(key, value, ttl)
    /\ ret' = None
    /\ last_set' = [last_set EXCEPT ![key] =
                       [live |-> TRUE, value |-> value, ttl |-> ttl, at |-> now]]
    /\ op' = [name |-> "set", key |-> key]
    /\ UNCHANGED <<search_vars, limiter_vars, call_vars, now, default_ttl, wrap_ttl, last_exec>>

CacheDelete(key) ==
    /\ cache' = dict_del(cache, {_get_key(key)})
    /\ ret' = None
    /\ last_set' = [last_set EXCEPT ![key] = NoSet]
    /\ op' = [name |-> "delete", key |-> key]
    /\ UNCHANGED <<search_vars, limiter_vars, call_vars, now, default_ttl, wrap_ttl, last_exec>>

CacheClear ==
    /\ cache' = <<>>
    /\ ret' = None
    /\ last_set' = [k \in CacheKeys |-> NoSet]
    /\ op' = [name |-> "clear"]
    /\ UNCHANGED <<search_vars, limiter_vars, call_vars, now, default_ttl, wrap_ttl, last_exec>>

\* Cache.size: _clean_expired, then len(self.cache).
CacheSize ==
    /\ cache' = dict_del(cache, {k \in DOMAIN cache : is_expired(cache[k])})
    /\ ret' = Cardinality(DOMAIN cache')
    /\ op' = [name |-> "size"]
    /\ UNCHANGED <<search_vars, limiter_vars, call_vars, now, default_ttl, last_set, wrap_ttl, last_exec>>

\* A second passes.
Tick ==
    /\ now < MaxNow
    /\ now' = now + 1
    /\ op' = [name |-> "tick"]
    /\ UNCHANGED <<search_vars, limiter_vars, call_vars, ret, cache, default_ttl, last_set, wrap_ttl, last_exec>>

\* No search is under way.
SearchIdle ==
    /\ fs = [exists |-> FALSE, dirs |-> <<>>]
    /\ entry = "none" /\ pattern = <<>> /\ file_types = <<>>
    /\ case_sensitive = FALSE
    /\ snippet_context = DefaultContext
    /\ max_results = DefaultMaxResults
    /\ max_depth = DefaultMaxDepth
    /\ pc = "done" /\ dir_idx = 0 /\ file_idx = 0
    /\ results = <<>> /\ structure = <<>> /\ outcome = "none"
    /\ opened = <<>> /\ visited = <<>>

\* cache = Cache(default_ttl)
InitCache ==
    /\ SearchIdle
    /\ ret = "none" /\ now = 0 /\ cache = <<>>
    /\ default_ttl \in 1..MaxTtl
    /\ last_set = [k \in CacheKeys |-> NoSet]
    /\ op = [name |-> "none"]
    /\ wrap_ttl = NoTtl
    /\ last_exec = <<>>
    /\ LimiterIdle
    /\ CallIdle

NextCache ==
    \/ \E key \in CacheKeys : CacheGet(key)
    \/ \E key \in CacheKeys, value \in CacheValues, ttl \in OptTtl(0..MaxTtl) :
          CacheSet(key, value, ttl)
    \/ \E key \in CacheKeys : CacheDelete(key)
    \/ CacheClear
    \/ CacheSize
    \/ Tick

SpecCache == InitCache /\ [][NextCache]_vars

(***************************************************************************)
(* utils.py: @cached(ttl).  SpecCached: calls of two wrapped functions on  *)
(* the global cache, with the clock running.  An argument is its type and  *)
(* the characters of its str().                                            *)
(***************************************************************************)
int_1 == [type |-> "int", text |-> <<"1">>]
str_1 == [type |-> "str", text |-> <<"1">>]

\* The argument lists of the calls.
ArgLists == {<<int_1>>, <<str_1>>, <<int_1, int_1>>}

\* The wrapped functions: "label" returns a value that tells its arguments
\* apart, "nothing" returns None.
Funcs == {"label", "nothing"}

func(name, args) ==
    IF name = "nothing" THEN None
    ELSE CASE args = <<int_1>> -> "int 1"
           [] args = <<str_1>> -> "str 1"
           [] OTHER -> "int 1, int 1"

\* ":".join(parts)
RECURSIVE join_colon(_)
join_colon(parts) ==
    IF parts = <<>> THEN <<>>
    ELSE IF Len(parts) = 1 THEN parts[1]
    ELSE parts[1] \o <<":">> \o join_colon(Tail(parts))

\* cache_key = ":".join([func.__name__] + [str(arg) for arg in args])
wrapper_key(name, args) ==
    join_colon(<<<<name>>>> \o [i \in 1..Len(args) |-> args[i].text])

\* wrapper(*args): the cached result when cache.get gives one that is not
\* None; otherwise the function is executed and its result is cached.
CachedCall(name, args) ==
    LET cache_key == wrapper_key(name, args)
        cached_result == cache_get(cache_key).ret
        result == func(name, args)
    IN /\ IF cached_result # None
          THEN /\ ret' = cached_result
               /\ cache' = cache_get(cache_key).cache
               /\ op' = [name |-> "call", func |-> name, args |-> args,
                         executed |-> FALSE]
               /\ UNCHANGED last_exec
          ELSE /\ ret' = result
               /\ cache' = cache_set(cache_key, result, wrap_ttl)
               /\ op' = [name |-> "call", func |-> name, args |-> args,
                         executed |-> TRUE]
               /\ last_exec' = dict_set(last_exec, <<name, args>>,
                                        [at |-> now, result |-> result])
       /\ UNCHANGED <<search_vars, limiter_vars, call_vars, now, default_ttl, last_set, wrap_ttl>>

\* The global cache = Cache(), and functions decorated with @cached(ttl).
InitCached ==
    /\ SearchIdle
    /\ ret = "none" /\ now = 0 /\ cache = <<>>
    /\ default_ttl = DefaultTtl
    /\ last_set = [k \in CacheKeys |-> NoSet]
    /\ op = [name |-> "none"]
    /\ wrap_ttl \in OptTtl(0..MaxTtl)
    /\ last_exec = <<>>
    /\ LimiterIdle
    /\ CallIdle

NextCached ==
    \/ \E name \in Funcs, args \in ArgLists : CachedCall(name, args)
    \/ Tick

SpecCached == InitCached /\ [][NextCached]_vars

(***************************************************************************)
(* utils.py: class RateLimiter.  SpecLimiter: calls on one limiter with    *)
(* the clock running.  Token amounts are exact, in 1/Scale tokens.         *)
(***************************************************************************)
LimiterKeys == {"a", "b"}

\* self.tokens after _get_or_create_bucket(key)
_get_or_create_bucket(key) ==
    IF key \notin DOMAIN tokens
    THEN dict_set(tokens, key, [tokens |-> capacity * Scale, last_refill |-> now])
    ELSE tokens

\* min(self.capacity, bucket["tokens"] + tokens_to_add) without the min
refill_uncapped(amount, tokens_to_add) == amount + tokens_to_add

\* min(self.capacity, bucket["tokens"] + tokens_to_add)
refill(amount, tokens_to_add) == Min(capacity * Scale, amount + tokens_to_add)

\* the bucket after _refill_bucket(bucket)
_refill_bucket(bucket) ==
    LET time_passed == now - bucket.last_refill IN
    IF time_passed > 0
    THEN [tokens |-> refill(bucket.tokens, time_passed * refill_rate),
          last_refill |-> now]
    ELSE bucket

IsAllowed(key) ==
    LET created == _get_or_create_bucket(key)
        bucket == _refill_bucket(created[key])
    IN /\ Len(log) < MaxLog
       /\ IF bucket.tokens >= Scale
          THEN /\ tokens' = dict_set(created, key,
                                     [bucket EXCEPT !.tokens = @ - Scale])
               /\ ret' = TRUE
          ELSE /\ tokens' = dict_set(created, key, bucket)
               /\ ret' = FALSE
       /\ log' = Append(log, [key |-> key, at |-> now, ok |-> ret'])
       /\ op' = [name |-> "is_allowed", key |-> key]
       /\ UNCHANGED <<search_vars, call_vars, now, cache, default_ttl, last_set, wrap_ttl,
                      last_exec, capacity, refill_rate>>

GetTokens(key) ==
    LET created == _get_or_create_bucket(key)
        bucket == _refill_bucket(created[key])
    IN /\ tokens' = dict_set(created, key, bucket)
       /\ ret' = bucket.tokens
       /\ op' = [name |-> "get_tokens", key |-> key]
       /\ UNCHANGED <<search_vars, call_vars, now, cache, default_ttl, last_set, wrap_ttl,
                      last_exec, capacity, refill_rate, log>>

LimiterClear ==
    /\ tokens' = <<>>
    /\ log' = <<>>
    /\ ret' = None
    /\ op' = [name |-> "clear"]
    /\ UNCHANGED <<search_vars, call_vars, now, cache, default_ttl, last_set, wrap_ttl,
                   last_exec, capacity, refill_rate>>

\* RateLimiter(capacity, refill_rate): no bucket yet.
InitLimiter ==
    /\ SearchIdle
    /\ ret = "none" /\ now = 0 /\ cache = <<>>
    /\ default_ttl = DefaultTtl
    /\ last_set = [k \in CacheKeys |-> NoSet]
    /\ op = [name |-> "none"]
    /\ wrap_ttl = NoTtl
    /\ last_exec = <<>>
    /\ capacity \in 0..MaxCapacity
    /\ refill_rate \in 1..Scale
    /\ tokens = <<>>
    /\ log = <<>>
    /\ CallIdle

NextLimiter ==
    \/ \E key \in LimiterKeys : IsAllowed(key)
    \/ \E key \in LimiterKeys : GetTokens(key)
    \/ LimiterClear
    \/ Tick

SpecLimiter == InitLimiter /\ [][NextLimiter]_vars

(***************************************************************************)
(* SpecThreads: several threads inside RateLimiter.is_allowed for one key  *)
(* while the clock stands still.  The method takes no lock, so the threads *)
(* interleave between its reads and writes of self.tokens and of the       *)
(* bucket.  proc.objects are the bucket dicts created so far, proc.at the  *)
(* one stored in self.tokens under the key (0: none), and each thread      *)
(* holds the bucket it was handed and the amount it last read.             *)
(***************************************************************************)
Threads == 1..MaxThreads

\* self.tokens, given the bucket objects and the one stored under the key
stored(objects, at) ==
    IF at = 0 THEN <<>> ELSE dict_set(<<>>, arg.key, objects[at])

Thread(t) == proc.threads[t]

\* The thread returns ok from is_allowed.
ThreadReturns(t, ok) ==
    /\ ret' = ok
    /\ log' = Append(log, [key |-> arg.key, at |-> now, ok |-> ok])

ThreadFrame ==
    UNCHANGED <<search_vars, arg, now, cache, default_ttl, last_set, op, wrap_ttl,
                last_exec, capacity, refill_rate>>

\* _get_or_create_bucket: `if key not in self.tokens`
ThreadEnter(t) ==
    /\ Thread(t).pc = "call"
    /\ proc' = [proc EXCEPT !.threads[t].pc =
                    IF arg.key \notin DOMAIN tokens THEN "create" ELSE "lookup"]
    /\ UNCHANGED <<tokens, ret, log>>
    /\ ThreadFrame

\* _get_or_create_bucket: `self.tokens[key] = {...}`, a new bucket object
ThreadCreate(t) ==
    /\ Thread(t).pc = "create"
    /\ proc' = [proc EXCEPT
                   !.objects = Append(@, [tokens |-> capacity * Scale,
                                          last_refill |-> now]),
                   !.at = Len(proc.objects) + 1,
                   !.threads[t].pc = "lookup"]
    /\ tokens' = stored(proc'.objects, proc'.at)
    /\ UNCHANGED <<ret, log>>
    /\ ThreadFrame

\* _get_or_create_bucket: `return self.tokens[key]`
ThreadLookup(t) ==
    /\ Thread(t).pc = "lookup"
    /\ proc' = [proc EXCEPT !.threads[t].bucket = proc.at,
                            !.threads[t].pc = "refill"]
    /\ UNCHANGED <<tokens, ret, log>>
    /\ ThreadFrame

\* self._refill_bucket(bucket)
ThreadRefill(t) ==
    /\ Thread(t).pc = "refill"
    /\ proc' = [proc EXCEPT !.objects[Thread(t).bucket] = _refill_bucket(@),
                            !.threads[t].pc = "check"]
    /\ tokens' = stored(proc'.objects, proc'.at)
    /\ UNCHANGED <<ret, log>>
    /\ ThreadFrame

\* `if bucket["tokens"] >= 1:` and, when it fails, `return False`
ThreadCheck(t) ==
    /\ Thread(t).pc = "check"
    /\ IF proc.objects[Thread(t).bucket].tokens >= Scale
       THEN /\ proc' = [proc EXCEPT !.threads[t].pc = "load"]
            /\ UNCHANGED <<ret, log>>
       ELSE /\ proc' = [proc EXCEPT !.threads[t].pc = "done"]
            /\ ThreadReturns(t, FALSE)
    /\ UNCHANGED tokens
    /\ ThreadFrame

\* `bucket["tokens"] -= 1`: the read of bucket["tokens"]
ThreadLoad(t) ==
    /\ Thread(t).pc = "load"
    /\ proc' = [proc EXCEPT !.threads[t].held = proc.objects[Thread(t).bucket].tokens,
                            !.threads[t].pc = "store"]
    /\ UNCHANGED <<tokens, ret, log>>
    /\ ThreadFrame

\* `bucket["tokens"] -= 1`: the write of the amount read less 1, and `return True`
ThreadStore(t) ==
    /\ Thread(t).pc = "store"
    /\ proc' = [proc EXCEPT !.objects[Thread(t).bucket].tokens = Thread(t).held - Scale,
                            !.threads[t].pc = "done"]
    /\ tokens' = stored(proc'.objects, proc'.at)
    /\ ThreadReturns(t, TRUE)
    /\ ThreadFrame

\* A limiter whose key has no bucket yet, or a bucket with some amount, and
\* the threads about to call is_allowed(key).
InitThreads ==
    /\ SearchIdle
    /\ ret = "none" /\ now = 0 /\ cache = <<>>
    /\ default_ttl = DefaultTtl
    /\ last_set = [k \in CacheKeys |-> NoSet]
    /\ op = [name |-> "none"]
    /\ wrap_ttl = NoTtl
    /\ last_exec = <<>>
    /\ capacity \in 0..MaxCapacity
    /\ refill_rate \in 1..Scale
    /\ log = <<>>
    /\ \E amount \in (0..(capacity * Scale)) \cup {-1} :
          /\ arg = [key |-> "a",
                    available |-> IF amount = -1 THEN capacity * Scale ELSE amount]
          /\ proc = [objects |-> IF amount = -1 THEN <<>>
                                 ELSE <<[tokens |-> amount, last_refill |-> now]>>,
                     at |-> IF amount = -1 THEN 0 ELSE 1,
                     threads |-> [t \in Threads |->
                                     [pc |-> "call", bucket |-> 0, held |-> 0]]]
    /\ tokens = stored(proc.objects, proc.at)

NextThreads ==
    \/ \E t \in Threads : ThreadEnter(t)
    \/ \E t \in Threads : ThreadCreate(t)
    \/ \E t \in Threads : ThreadLookup(t)
    \/ \E t \in Threads : ThreadRefill(t)
    \/ \E t \in Threads : ThreadCheck(t)
    \/ \E t \in Threads : ThreadLoad(t)
    \/ \E t \in Threads : ThreadStore(t)

SpecThreads == InitThreads /\ [][NextThreads]_vars

(***************************************************************************)
(* utils.py: validate_path, and vcs.py: VCSManager._validate_path.         *)
(* posixpath is modelled by its algorithms on sequences of characters.     *)
(***************************************************************************)
SEP == "/"

\* s.split(ch)
RECURSIVE str_split(_, _)
str_split(s, ch) ==
    IF \A i \in 1..Len(s) : s[i] # ch THEN <<s>>
    ELSE LET i == CHOOSE j \in 1..Len(s) :
                      s[j] = ch /\ \A k \in 1..(j - 1) : s[k] # ch
         IN <<SubSeq(s, 1, i - 1)>> \o str_split(SubSeq(s, i + 1, Len(s)), ch)

\* ch.join(parts)
RECURSIVE str_join(_, _)
str_join(parts, ch) ==
    IF parts = <<>> THEN <<>>
    ELSE IF Len(parts) = 1 THEN parts[1]
    ELSE parts[1] \o <<ch>> \o str_join(Tail(parts), ch)

\* s.startswith(prefix)
startswith(s, prefix) ==
    /\ Len(prefix) <= Len(s)
    /\ SubSeq(s, 1, Len(prefix)) = prefix

\* posixpath.isabs
isabs(p) == startswith(p, <<SEP>>)

\* posixpath.join(a, b)
path_join(a, b) ==
    IF isabs(b) THEN b
    ELSE IF a = <<>> \/ a[Len(a)] = SEP THEN a \o b
    ELSE a \o <<SEP>> \o b

\* the loop of posixpath.normpath over the components
RECURSIVE norm_comps(_, _, _)
norm_comps(comps, new_comps, initial_slashes) ==
    IF comps = <<>> THEN new_comps
    ELSE LET comp == Head(comps)
             dotdot == <<".", ".">>
         IN IF comp = <<>> \/ comp = <<".">>
            THEN norm_comps(Tail(comps), new_comps, initial_slashes)
            ELSE IF \/ comp # dotdot
                    \/ (initial_slashes = 0 /\ new_comps = <<>>)
                    \/ (new_comps # <<>> /\ new_comps[Len(new_comps)] = dotdot)
            THEN norm_comps(Tail(comps), Append(new_comps, comp), initial_slashes)
            ELSE IF new_comps # <<>>
            THEN norm_comps(Tail(comps), SubSeq(new_comps, 1, Len(new_comps) - 1),
                            initial_slashes)
            ELSE norm_comps(Tail(comps), new_comps, initial_slashes)

\* posixpath.normpath
normpath(path) ==
    IF path = <<>> THEN <<".">>
    ELSE LET initial_slashes ==
                 IF ~isabs(path) THEN 0
                 ELSE IF startswith(path, <<SEP, SEP>>) /\ ~startswith(path, <<SEP, SEP, SEP>>)
                 THEN 2 ELSE 1
             joined == str_join(norm_comps(str_split(path, SEP), <<>>, initial_slashes), SEP)
             out == [i \in 1..initial_slashes |-> SEP] \o joined
         IN IF out = <<>> THEN <<".">> ELSE out

\* os.getcwd() of the server process
cwd == <<SEP>>

\* posixpath.abspath
abspath(path) == normpath(IF isabs(path) THEN path ELSE path_join(cwd, path))

\* utils.validate_path(path, allowed_dir)
validate_path(path, allowed_dir) ==
    LET normalized_path == normpath(path)
        allowed_abs == abspath(allowed_dir)
        path_abs == abspath(path_join(allowed_abs, normalized_path))
    IN IF \E i \in 1..Len(str_split(normalized_path, SEP)) :
              str_split(normalized_path, SEP)[i] = <<".", ".">>
       THEN FALSE
       ELSE startswith(path_abs, allowed_abs)

\* VCSManager._validate_path(path), self.local_repo_dir given
_validate_path(path, local_repo_dir) ==
    LET normalized_path == normpath(path)
        allowed_dir == abspath(local_repo_dir)
        full_path == abspath(path_join(allowed_dir, normalized_path))
    IN IF \E i \in 1..Len(str_split(normalized_path, SEP)) :
              str_split(normalized_path, SEP)[i] = <<".", ".">>
       THEN FALSE
       ELSE startswith(full_path, allowed_dir)

ValidateAlphabet == {"a", ".", SEP}

\* The allowed directories: absolute ones, the root, and one relative to the
\* working directory as the default LOCAL_REPO_DIR "./repos" is.
AllowedDirs == {<<SEP, "a">>, <<SEP, "a", SEP, "a">>, <<SEP>>, <<".", SEP, "a">>}

ValidatePath ==
    /\ op.name = "none"
    /\ ret' = validate_path(arg.path, arg.allowed_dir)
    /\ op' = [name |-> "validate_path"]
    /\ UNCHANGED <<search_vars, limiter_vars, call_vars, now, cache, default_ttl,
                   last_set, wrap_ttl, last_exec>>

VcsValidatePath ==
    /\ op.name = "none"
    /\ ret' = _validate_path(arg.path, arg.allowed_dir)
    /\ op' = [name |-> "_validate_path"]
    /\ UNCHANGED <<search_vars, limiter_vars, call_vars, now, cache, default_ttl,
                   last_set, wrap_ttl, last_exec>>

InitValidate ==
    /\ SearchIdle
    /\ ret = "none" /\ now = 0 /\ cache = <<>>
    /\ default_ttl = DefaultTtl
    /\ last_set = [k \in CacheKeys |-> NoSet]
    /\ op = [name |-> "none"]
    /\ wrap_ttl = NoTtl
    /\ last_exec = <<>>
    /\ LimiterIdle
    /\ arg \in [path : Strs(ValidateAlphabet, MaxPath), allowed_dir : AllowedDirs]
    /\ proc = <<>>

NextValidate == ValidatePath \/ VcsValidatePath

SpecValidate == InitValidate /\ [][NextValidate]_vars

(***************************************************************************)
(* vcs.py: VCSManager._get_repo_path and the path check of the operations, *)
(* and the search tools of main.py.  SpecRepoPath: the directory each of   *)
(* them works on, for every owner and repo.                                *)
(***************************************************************************)
\* posixpath.basename
RECURSIVE basename(_)
basename(p) ==
    IF p = <<>> THEN p
    ELSE IF p[Len(p)] = SEP THEN <<>>
    ELSE Append(basename(SubSeq(p, 1, Len(p) - 1)), p[Len(p)])

\* VCSManager._get_repo_path(owner, repo), self.local_repo_dir given
_get_repo_path(owner, repo, local_repo_dir) ==
    path_join(local_repo_dir, owner \o <<"_">> \o repo)

\* settings.LOCAL_REPO_DIR: relative to the working directory as the default
\* "./repos" is, or absolute.
LocalRepoDirs == {<<".", SEP, "a">>, <<SEP, "a">>}

\* clone_repo, checkout_branch, commit_changes, push_changes, pull_changes,
\* get_local_branches, get_remote_branches and get_status, up to the point
\* where they raise ValueError or go on with repo_path.
VcsOperation ==
    /\ op.name = "none"
    /\ LET repo_path == _get_repo_path(arg.owner, arg.repo, arg.local_repo_dir) IN
       ret' = IF ~_validate_path(basename(repo_path), arg.local_repo_dir)
              THEN [raised |-> TRUE, repo_path |-> <<>>]
              ELSE [raised |-> FALSE, repo_path |-> repo_path]
    /\ op' = [name |-> "vcs_operation"]
    /\ UNCHANGED <<search_vars, limiter_vars, call_vars, now, cache, default_ttl,
                   last_set, wrap_ttl, last_exec>>

\* main.py search_code, search_code_snippet, search_by_regex and
\* get_repo_file_structure: the directory handed to code_searcher.
SearchTool ==
    /\ op.name = "none"
    /\ ret' = [raised |-> FALSE,
               repo_path |-> _get_repo_path(arg.owner, arg.repo, arg.local_repo_dir)]
    /\ op' = [name |-> "search_tool"]
    /\ UNCHANGED <<search_vars, limiter_vars, call_vars, now, cache, default_ttl,
                   last_set, wrap_ttl, last_exec>>

InitRepoPath ==
    /\ SearchIdle
    /\ ret = "none" /\ now = 0 /\ cache = <<>>
    /\ default_ttl = DefaultTtl
    /\ last_set = [k \in CacheKeys |-> NoSet]
    /\ op = [name |-> "none"]
    /\ wrap_ttl = NoTtl
    /\ last_exec = <<>>
    /\ LimiterIdle
    /\ arg \in [owner : Strs(ValidateAlphabet, MaxName),
                repo : Strs(ValidateAlphabet, MaxName),
                local_repo_dir : LocalRepoDirs]
    /\ proc = <<>>

NextRepoPath == VcsOperation \/ SearchTool

SpecRepoPath == InitRepoPath /\ [][NextRepoPath]_vars

(***************************************************************************)
(* vcs.py: VCSManager.clone_repo once the path check has passed.           *)
(* SpecClone: the call step by step, arg holding what the file system and  *)
(* git do: whether the url is a non-empty string, whether a copy exists,   *)
(* whether it is still there after shutil.rmtree, how `rm -rf` ends, how   *)
(* Repo.clone_from ends, whether a branch was given and whether the clone  *)
(* has an active branch.  proc.subprocess tells whether the function's     *)
(* local name `subprocess` is bound, proc.pending the exception in flight. *)
(***************************************************************************)
CloneWorlds ==
    [url_ok : BOOLEAN, exists : BOOLEAN, rmtree_leaves : BOOLEAN,
     rm : {"ok", "CalledProcessError"},
     clone_from : {"ok", "GitCommandError", "OSError"},
     branch : BOOLEAN, active_branch : {"ok", "TypeError"}]

CloneResult(success) == [outcome |-> "returned", success |-> success]

CloneFrame ==
    UNCHANGED <<search_vars, limiter_vars, arg, now, cache, default_ttl, last_set,
                wrap_ttl, last_exec>>

\* the check of the url, before the try statement
CloneCheckUrl ==
    /\ proc.pc = "call"
    /\ IF ~arg.url_ok
       THEN /\ proc' = [proc EXCEPT !.pc = "done"]
            /\ ret' = CloneResult(FALSE)
       ELSE /\ proc' = [proc EXCEPT !.pc = "delete"]
            /\ UNCHANGED ret
    /\ op' = [name |-> "clone_repo"]
    /\ CloneFrame

\* `if os.path.exists(repo_path):` with its own try and `except Exception`;
\* `import subprocess` binds the local name only when rmtree left the copy.
CloneDelete ==
    /\ proc.pc = "delete"
    /\ IF ~arg.exists \/ ~arg.rmtree_leaves
       THEN /\ proc' = [proc EXCEPT !.pc = "clone"]
            /\ UNCHANGED ret
       ELSE IF arg.rm = "ok"
       THEN /\ proc' = [proc EXCEPT !.pc = "clone", !.subprocess = TRUE]
            /\ UNCHANGED ret
       ELSE /\ proc' = [proc EXCEPT !.pc = "done", !.subprocess = TRUE]
            /\ ret' = CloneResult(FALSE)
    /\ op' = [name |-> "delete"]
    /\ CloneFrame

\* Repo.clone_from(...) and the result with `branch or repo.active_branch.name`
CloneFrom ==
    /\ proc.pc = "clone"
    /\ IF arg.clone_from # "ok"
       THEN /\ proc' = [proc EXCEPT !.pc = "except", !.pending = arg.clone_from]
            /\ UNCHANGED ret
       ELSE IF ~arg.branch /\ arg.active_branch # "ok"
       THEN /\ proc' = [proc EXCEPT !.pc = "except", !.cloned = TRUE,
                                    !.pending = arg.active_branch]
            /\ UNCHANGED ret
       ELSE /\ proc' = [proc EXCEPT !.pc = "done", !.cloned = TRUE]
            /\ ret' = CloneResult(TRUE)
    /\ op' = [name |-> "clone_from"]
    /\ CloneFrame

\* the name `subprocess` is unbound when `except subprocess.CalledProcessError`
\* is reached
subprocess_unbound == ~proc.subprocess

\* the except clauses of the outer try, in order
CloneExcept ==
    /\ proc.pc = "except"
    /\ proc' = [proc EXCEPT !.pc = "done", !.pending = "none"]
    /\ IF proc.pending = "GitCommandError"
       THEN ret' = CloneResult(FALSE)
       ELSE IF subprocess_unbound
       THEN ret' = [outcome |-> "raised", success |-> FALSE]
       ELSE ret' = CloneResult(FALSE)
    /\ op' = [name |-> "except"]
    /\ CloneFrame

InitClone ==
    /\ SearchIdle
    /\ ret = "none" /\ now = 0 /\ cache = <<>>
    /\ default_ttl = DefaultTtl
    /\ last_set = [k \in CacheKeys |-> NoSet]
    /\ op = [name |-> "none"]
    /\ wrap_ttl = NoTtl
    /\ last_exec = <<>>
    /\ LimiterIdle
    /\ arg \in CloneWorlds
    /\ proc = [pc |-> "call", subprocess |-> FALSE, cloned |-> FALSE, pending |-> "none"]

NextClone == CloneCheckUrl \/ CloneDelete \/ CloneFrom \/ CloneExcept

SpecClone == InitClone /\ [][NextClone]_vars

(***************************************************************************)
(* utils.py: sanitize_filename.                                            *)
(***************************************************************************)
\* [<>:"/\\|?*]
UnsafeChars == {"<", ">", ":", "\"", "/", "\\", "|", "?", "*"}

max_length == 255

RECURSIVE lstrip(_)
lstrip(s) ==
    IF s # <<>> /\ s[1] \in Whitespace THEN lstrip(Tail(s)) ELSE s

\* s.strip()
strip(s) == rstrip(lstrip(s))

\* re.sub(r'[<>:"/\\|?*]', '_', s)
sub_unsafe(s) == [i \in 1..Len(s) |-> IF s[i] \in UnsafeChars THEN "_" ELSE s[i]]

\* s.replace(' ', '_')
replace_space(s) == [i \in 1..Len(s) |-> IF s[i] = " " THEN "_" ELSE s[i]]

\* re.sub(r'_+', '_', s) of the characters lo..hi of s: an underscore that
\* follows an underscore is dropped
RECURSIVE sub_underscores(_, _, _)
sub_underscores(s, lo, hi) ==
    IF lo > hi THEN <<>>
    ELSE IF lo = hi
    THEN IF lo > 1 /\ s[lo] = "_" /\ s[lo - 1] = "_" THEN <<>> ELSE <<s[lo]>>
    ELSE LET mid == (lo + hi) \div 2
         IN sub_underscores(s, lo, mid) \o sub_underscores(s, mid + 1, hi)

\* s[:k]: a negative k counts from the end
py_head(s, k) ==
    IF k >= 0 THEN SubSeq(s, 1, Min(k, Len(s)))
    ELSE SubSeq(s, 1, Max(Len(s) + k, 0))

sanitize_filename(filename) ==
    LET stripped == strip(filename)
        replaced == replace_space(sub_unsafe(stripped))
        sanitized == sub_underscores(replaced, 1, Len(replaced))
    IN IF Len(sanitized) > max_length
       THEN LET ext == splitext(sanitized)
                name == SubSeq(sanitized, 1, Len(sanitized) - Len(ext))
            IN py_head(name, max_length - Len(ext)) \o ext
       ELSE sanitized

SanitizeAlphabet == {"a", " ", ":", "_", "."}

RunLengths == {0, 1, max_length - 1, max_length, max_length + 1, MaxRun}

run(ch, n) == [i \in 1..n |-> ch]

SanitizeFilename ==
    /\ op.name = "none"
    /\ ret' = sanitize_filename(arg.filename)
    /\ op' = [name |-> "sanitize_filename"]
    /\ UNCHANGED <<search_vars, limiter_vars, call_vars, now, cache, default_ttl,
                   last_set, wrap_ttl, last_exec>>

\* The file names: a run of "a", then maybe a dot, then a run of "b", with
\* up to MaxEdge characters before and after.
InitSanitize ==
    /\ SearchIdle
    /\ ret = "none" /\ now = 0 /\ cache = <<>>
    /\ default_ttl = DefaultTtl
    /\ last_set = [k \in CacheKeys |-> NoSet]
    /\ op = [name |-> "none"]
    /\ wrap_ttl = NoTtl
    /\ last_exec = <<>>
    /\ LimiterIdle
    /\ \E left \in Strs(SanitizeAlphabet, MaxEdge), right \in Strs(SanitizeAlphabet, MaxEdge),
          n \in RunLengths, m \in RunLengths, dot \in Strs({"."}, 1) :
          arg = [filename |-> left \o run("a", n) \o dot \o run("b", m) \o right]
    /\ proc = <<>>

NextSanitize == SanitizeFilename

SpecSanitize == InitSanitize /\ [][NextSanitize]_vars

(***************************************************************************)
(* vcs.py: VCSManager.get_status.                                          *)
(***************************************************************************)
\* s[lo:], clipped like a Python slice
py_tail(s, lo) == SubSeq(s, lo + 1, Len(s))

\* status_code = line[:2].strip()
status_code(line) == strip(slice(line, 0, 2))

\* file_path = line[3:].strip()
file_path(line) == strip(py_tail(line, 3))

\* the loop over status.split('\n'): the four lists after the lines from i on
RECURSIVE parse_status(_, _, _)
parse_status(lines, i, lists) ==
    IF i > Len(lines) THEN lists
    ELSE LET line == lines[i]
             code == status_code(line)
             path == file_path(line)
         IN IF strip(line) = <<>> THEN parse_status(lines, i + 1, lists)
            ELSE IF code = <<"M">>
            THEN parse_status(lines, i + 1,
                     [lists EXCEPT !.modified_files = Append(@, path)])
            ELSE IF code = <<"A">>
            THEN parse_status(lines, i + 1,
                     [lists EXCEPT !.added_files = Append(@, path)])
            ELSE IF code = <<"D">>
            THEN parse_status(lines, i + 1,
                     [lists EXCEPT !.deleted_files = Append(@, path)])
            ELSE IF code = <<"?", "?">>
            THEN parse_status(lines, i + 1,
                     [lists EXCEPT !.untracked_files = Append(@, path)])
            ELSE parse_status(lines, i + 1, lists)

\* get_status once the path check has passed: {} when Repo or git raise
get_status(repo, status) ==
    IF repo = "error" THEN <<>>
    ELSE parse_status(str_split(status, NL), 1,
                      [modified_files |-> <<>>, added_files |-> <<>>,
                       deleted_files |-> <<>>, untracked_files |-> <<>>])

StatusCodes == {<<"M">>, <<"A">>, <<"D">>, <<"?", "?">>}

StatusPaths == {<<"f">>, <<"f", "/", "g">>, <<"M">>}

\* The lines of the form "<code> <path>", the blank lines, and the lines
\* "XY <path>" that git status --porcelain prints for a file modified in the
\* work tree or added to the index.
StatusLines ==
    {[form |-> "code path", code |-> c, path |-> q, text |-> c \o <<" ">> \o q] :
         c \in StatusCodes, q \in StatusPaths}
    \cup {[form |-> "blank", code |-> <<>>, path |-> <<>>, text |-> t] : t \in {<<>>, <<" ">>}}
    \cup {[form |-> "porcelain", code |-> c, path |-> <<"f">>, text |-> t \o <<" ", "f">>] :
              c \in {<<"M">>}, t \in {<<" ", "M">>, <<"M", " ">>}}

GetStatus ==
    /\ op.name = "none"
    /\ ret' = get_status(arg.repo, arg.status)
    /\ op' = [name |-> "get_status"]
    /\ UNCHANGED <<search_vars, limiter_vars, call_vars, now, cache, default_ttl,
                   last_set, wrap_ttl, last_exec>>

InitStatus ==
    /\ SearchIdle
    /\ ret = "none" /\ now = 0 /\ cache = <<>>
    /\ default_ttl = DefaultTtl
    /\ last_set = [k \in CacheKeys |-> NoSet]
    /\ op = [name |-> "none"]
    /\ wrap_ttl = NoTtl
    /\ last_exec = <<>>
    /\ LimiterIdle
    /\ \E lines \in UNION {[1..n -> StatusLines] : n \in 0..MaxStatusLines},
          repo \in {"ok", "error"} :
          arg = [lines |-> lines, repo |-> repo,
                 status |-> str_join([i \in 1..Len(lines) |-> lines[i].text], NL)]
    /\ proc = <<>>

NextStatus == GetStatus

SpecStatus == InitStatus /\ [][NextStatus]_vars

(***************************************************************************)
(* get_file_structure, step by step.  SpecListing follows the recursion of *)
(* _build_structure with its stack of calls, on directories whose entries  *)
(* are interleaved, may be links to any directory (also to the directory   *)
(* itself or to the root), and may fail with PermissionError: os.listdir   *)
(* of a directory without read permission, and os.path.getsize of an entry *)
(* of a directory without search permission.                               *)
(***************************************************************************)
\* The directories: the root 1 and the directory 2.
ListedDirs == {1, 2}

\* The entries of a directory, in the order of sorted(os.listdir()).
ListedEntries ==
    {[type |-> "file", stat |-> st, target |-> 0] : st \in {"ok", "PermissionError"}}
    \cup {[type |-> "directory", stat |-> "ok", target |-> t] : t \in ListedDirs}

\* A directory: its entries, or no entry and a listing that fails.
ListedDirectories ==
    {[listdir |-> "ok", items |-> it] : it \in Strs(ListedEntries, MaxItems)}
    \cup {[listdir |-> "PermissionError", items |-> <<>>]}

\* The call of _build_structure on top of the stack.
top == proc[Len(proc)]

\* _build_structure(current_dir, current_depth) begins: the entry `name` of
\* the caller's directory designates directory d.
frame(d, name, current_depth) ==
    [dir |-> d, name |-> name, current_depth |-> current_depth,
     idx |-> 1, children |-> <<>>, caught |-> FALSE]

\* if current_depth > max_depth, one level late
beyond_cap_late(current_depth) == current_depth > max_depth + 1

\* if current_depth > max_depth
beyond_cap(current_depth) == current_depth > max_depth

\* os.path.getsize(item_path) raises PermissionError: never
getsize_never_raises(item) == FALSE

\* os.path.getsize(item_path) raises PermissionError
getsize_raises(item) == item.stat # "ok"

\* The call on top of the stack has nothing left to do: it is beyond the
\* depth cap, its listing failed, a PermissionError ended its loop, or the
\* loop is over.
frame_over(f) ==
    \/ beyond_cap(f.current_depth)
    \/ fs.nodes[f.dir].listdir # "ok"
    \/ f.caught
    \/ f.idx > Len(fs.nodes[f.dir].items)

\* return _build_structure(directory, 0)
ListingCall ==
    /\ pc = "call" /\ entry = "get_file_structure"
    /\ pc' = "list"
    /\ proc' = <<frame(1, 0, 0)>>
    /\ UNCHANGED <<request, dir_idx, file_idx, results, structure, outcome, opened,
                   visited, limiter_vars, arg, ret, now, cache, default_ttl,
                   last_set, op, wrap_ttl, last_exec>>

\* One turn of the loop over sorted(os.listdir(current_dir)).
ListingItem ==
    /\ pc = "list" /\ ~frame_over(top)
    /\ LET item == fs.nodes[top.dir].items[top.idx] IN
       IF item.type = "directory"
       THEN proc' = Append(proc, frame(item.target, top.idx, top.current_depth + 1))
       ELSE IF ~_is_file_type_matched(".py", file_types)
       THEN proc' = [proc EXCEPT ![Len(proc)].idx = @ + 1]
       ELSE IF getsize_raises(item)
       THEN proc' = [proc EXCEPT ![Len(proc)].caught = TRUE]
       ELSE proc' = [proc EXCEPT ![Len(proc)].idx = @ + 1,
                                 ![Len(proc)].children =
                                     Append(@, [name |-> top.idx, type |-> "file",
                                                children |-> <<>>])]
    /\ UNCHANGED <<request, pc, dir_idx, file_idx, results, structure, outcome,
                   opened, visited, limiter_vars, arg, ret, now, cache, default_ttl,
                   last_set, op, wrap_ttl, last_exec>>

\* return structure
ListingReturn ==
    /\ pc = "list" /\ frame_over(top)
    /\ LET node == [name |-> top.name, type |-> "directory", children |-> top.children]
           rest == SubSeq(proc, 1, Len(proc) - 1)
       IN IF rest = <<>>
          THEN /\ structure' = node
               /\ pc' = "done" /\ outcome' = "returned"
               /\ proc' = <<>>
          ELSE /\ proc' = [rest EXCEPT ![Len(rest)].idx = @ + 1,
                                       ![Len(rest)].children = Append(@, node)]
               /\ UNCHANGED <<structure, pc, outcome>>
    /\ UNCHANGED <<request, dir_idx, file_idx, results, opened, visited,
                   limiter_vars, arg, ret, now, cache, default_ttl, last_set, op,
                   wrap_ttl, last_exec>>

InitListing ==
    /\ Start
    /\ fs \in {[exists |-> TRUE, dirs |-> <<>>, nodes |-> n] :
                  n \in [ListedDirs -> ListedDirectories]}
    /\ file_types = <<>>
    /\ entry = "get_file_structure"
    /\ pattern = <<>> /\ case_sensitive = FALSE
    /\ snippet_context = DefaultContext
    /\ max_results = DefaultMaxResults
    /\ max_depth \in (-1)..MaxDepthArg

NextListing == ListingCall \/ ListingItem \/ ListingReturn

SpecListing == InitListing /\ [][NextListing]_vars

\* The interpreter runs the call as long as it has a step to take.
SpecListingLive == SpecListing /\ WF_vars(NextListing)

(***************************************************************************)
(* The call as a function of its arguments: the loops of the three search  *)
(* entry points over the files of the tree, from the i-th file on.         *)
(***************************************************************************)
RECURSIVE search_files(_, _, _, _, _, _, _, _, _)
search_files(e, files, i, acc, pat, cs, k, cap, types) ==
    IF i > Len(files) THEN [results |-> acc, status |-> "returned"]
    ELSE LET f == files[i] IN
         IF ~_is_file_type_matched(f.ext, types)
         THEN search_files(e, files, i + 1, acc, pat, cs, k, cap, types)
         ELSE IF e = "search_in_directory"
         THEN LET r == acc \o search_in_file(f, pat, cs, k) IN
              IF cap_reached(r, cap)
              THEN [results |-> slice(r, 0, cap), status |-> "returned"]
              ELSE search_files(e, files, i + 1, r, pat, cs, k, cap, types)
         ELSE IF f.read # "ok"
         THEN search_files(e, files, i + 1, acc, pat, cs, k, cap, types)
         ELSE LET got == match_loop(IF e = "search_code_snippet"
                                    THEN snippet_attempts(f, pat, cs, k)
                                    ELSE regex_attempts(f, pat, k),
                                    1, acc, cap)
              IN IF got.status = "next"
                 THEN search_files(e, files, i + 1, got.results, pat, cs, k, cap, types)
                 ELSE got

\* The call of the entry point e on the tree dirs.
search_tree(e, dirs, pat, cs, k, cap, types) ==
    IF e = "search_by_regex" /\ re_error(pat)
    THEN [results |-> <<>>, status |-> "returned"]
    ELSE search_files(e, tree_files(dirs), 1, <<>>, pat, cs, k, cap, types)

\* A finished call has the outcome and the list the function gives.
WalkAgrees ==
    (pc = "done" /\ entry \in SearchEntries) =>
        LET got == search_tree(entry, walk_dirs, pattern, case_sensitive,
                               snippet_context, max_results, file_types)
        IN outcome = got.status /\ (outcome = "returned" => results = got.results)

(***************************************************************************)
(* The claims.                                                             *)
(***************************************************************************)
compiles == ~(entry = "search_by_regex" /\ re_error(pattern))
searched == pc = "done" /\ entry \in SearchEntries /\ fs.exists /\ compiles
accepted(f) == _is_file_type_matched(f.ext, file_types)

RECURSIVE sum_seq(_)
sum_seq(ns) == IF ns = <<>> THEN 0 ELSE Head(ns) + sum_seq(Tail(ns))

\* The number of matches of the pattern in the text of one file: in each of
\* its lines for a keyword, in its content for a snippet or a regex.
matches_in(f) ==
    IF entry = "search_in_directory"
    THEN LET ls == readlines(f.content) IN
         sum_seq([n \in 1..Len(ls) |->
                     Len(finditer(re_escape(pattern), ~case_sensitive, ls[n]))])
    ELSE IF entry = "search_code_snippet"
    THEN Len(finditer(re_escape(pattern), ~case_sensitive, f.content))
    ELSE Len(finditer(re_parse(pattern), FALSE, f.content))

\* M: the matches in all accepted readable files of the tree.
total_matches ==
    LET fl == tree_files(fs.dirs) IN
    sum_seq([i \in 1..Len(fl) |->
                IF accepted(fl[i]) /\ fl[i].read = "ok" THEN matches_in(fl[i]) ELSE 0])

\* C1: a search of an existing tree with max_results > 0 (and a pattern that
\* compiles) returns a list of exactly min(max_results, M) entries, M being
\* the number of matches in all accepted readable files of the tree.
C1_CapExact ==
    searched => /\ outcome = "returned"
                /\ Len(results) = Min(max_results, total_matches)

\* C2: once the number of results has reached max_results, no further file is
\* opened and no further directory is visited.
C2_StopAtCap ==
    [][Len(results) >= max_results => (opened' = opened /\ visited' = visited)]_vars

\* The cap was reached while a directory and an accepted file were still ahead.
C2_Witness ==
    /\ pc = "done" /\ outcome = "returned" /\ entry \in SearchEntries
    /\ Len(results) = max_results
    /\ Len(visited) < Len(fs.dirs)
    /\ \E d \in DOMAIN fs.dirs : \E j \in DOMAIN fs.dirs[d].files :
          /\ accepted(fs.dirs[d].files[j])
          /\ \A o \in DOMAIN opened : opened[o] # fs.dirs[d].files[j].path

\* C3: search_by_regex with a pattern that does not compile ends in an error
\* the caller can tell from a search without matches, and reads no file.
C3_InvalidPatternFails ==
    (pc = "done" /\ entry = "search_by_regex" /\ re_error(pattern)) =>
        (outcome = "raised" /\ opened = <<>>)

\* C4: when the root directory does not exist, every search entry point and
\* get_file_structure end in an error, never in an empty result.
C4_MissingRootFails ==
    (pc = "done" /\ ~fs.exists) => outcome = "raised"

\* The tree without the files that cannot be read.
readable_only(dirs) ==
    [d \in DOMAIN dirs |->
        [dirs[d] EXCEPT !.files = SelectSeq(@, LAMBDA f : f.read = "ok")]]

unreadable_files ==
    {f \in {tree_files(fs.dirs)[i] : i \in DOMAIN tree_files(fs.dirs)} :
        accepted(f) /\ f.read # "ok"}

\* C5: on a tree holding files that cannot be read, a search raises no error
\* and returns exactly what the same search returns on the tree without those
\* files; no file is opened twice.
C5_FailSoft ==
    (searched /\ unreadable_files # {}) =>
        LET clean == search_tree(entry, readable_only(fs.dirs), pattern, case_sensitive,
                                 snippet_context, max_results, file_types)
        IN /\ outcome = "returned"
           /\ results = clean.results
           /\ \A i, j \in DOMAIN opened : opened[i] = opened[j] => i = j

\* C6: with an existing root and a pattern that compiles, every search ends by
\* returning a list, whatever the readable files hold; it never raises.
C6_NeverRaises == searched => outcome = "returned"

\* C7: every keyword-search result has 0 <= start_pos <= end_pos <= the length
\* of its match line, and the match line sliced from start_pos to end_pos is
\* match_text.
C7_SpanIsMatchText ==
    (pc = "done" /\ entry = "search_in_file") =>
        \A i \in DOMAIN results :
            LET m == results[i].context.match IN
            /\ 0 <= m.start_pos /\ m.start_pos <= m.end_pos
            /\ m.end_pos <= Len(m.content)
            /\ slice(m.content, m.start_pos, m.end_pos) = results[i].match_text

\* The keyword and the text as they are compared: as written when
\* case_sensitive, with case folded otherwise.
fold(s) == IF case_sensitive THEN s ELSE [i \in 1..Len(s) |-> lower(s[i])]

\* The keyword occurs in line at offset p.
occurs_at(line, p) ==
    /\ p + Len(pattern) <= Len(line)
    /\ fold(slice(line, p, p + Len(pattern))) = fold(pattern)

\* The offsets of the occurrences in line from offset p on, left to right:
\* all of them when overlapping is set, otherwise those a scan finds that
\* resumes at the end of each occurrence.
RECURSIVE occurrences(_, _, _)
occurrences(line, p, overlapping) ==
    IF p > Len(line) THEN <<>>
    ELSE IF occurs_at(line, p)
    THEN <<p>> \o occurrences(line, IF overlapping THEN p + 1 ELSE p + Len(pattern),
                              overlapping)
    ELSE occurrences(line, p + 1, overlapping)

\* The results the occurrences of the lines from the n-th on call for, as
\* <<line_num, start_pos, end_pos, match_text>>.
RECURSIVE expected_from(_, _, _)
expected_from(lines, n, overlapping) ==
    IF n > Len(lines) THEN <<>>
    ELSE LET ps == occurrences(lines[n], 0, overlapping) IN
         [j \in 1..Len(ps) |->
             <<n, ps[j], ps[j] + Len(pattern),
               slice(lines[n], ps[j], ps[j] + Len(pattern))>>]
         \o expected_from(lines, n + 1, overlapping)

reported ==
    [i \in DOMAIN results |->
        <<results[i].line_num, results[i].context.match.start_pos,
          results[i].context.match.end_pos, results[i].match_text>>]

keyword_done == pc = "done" /\ entry = "search_in_file"

\* C8 as stated: keyword search emits one result for every occurrence of the
\* keyword in every line, compared literally and with case ignored iff
\* case_sensitive is false, in left-to-right order.
C8_EveryOccurrence ==
    keyword_done =>
        reported = expected_from(readlines(fs.dirs[1].files[1].content), 1, TRUE)

\* C8 amended: keyword search emits one result for every occurrence of the
\* keyword that a left-to-right scan of each line finds when it resumes at the
\* end of the previous occurrence (occurrences do not overlap), compared
\* literally and with case ignored iff case_sensitive is false.
C8_ScanOccurrences ==
    keyword_done =>
        reported = expected_from(readlines(fs.dirs[1].files[1].content), 1, FALSE)

\* Two results of one line, found with case ignored, that differ in case.
C8_Witness ==
    /\ keyword_done /\ ~case_sensitive /\ Len(results) >= 2
    /\ results[1].line_num = results[2].line_num
    /\ results[1].match_text # results[2].match_text
    /\ results[1].context.match.start_pos < results[2].context.match.start_pos

\* The last line a match spans: a line more for every newline of match_text
\* but its last character.
last_line(r) ==
    r.line_num + (IF r.match_text = <<>> THEN 0
                  ELSE count_nl(slice(r.match_text, 0, Len(r.match_text) - 1)))

consecutive(entries) ==
    \A j \in 1..(Len(entries) - 1) : entries[j + 1].line_num = entries[j].line_num + 1

\* C9: in every result, pre and post hold at most snippet_context entries
\* each, of consecutive increasing line numbers, those of pre smaller than the
\* first line of the match and those of post greater than its last line.
C9_ContextWindow ==
    (pc = "done" /\ outcome = "returned" /\ entry \in SearchEntries) =>
        \A i \in DOMAIN results :
            LET r == results[i]
                pre == r.context.pre
                post == r.context.post
            IN /\ Len(pre) <= snippet_context /\ Len(post) <= snippet_context
               /\ consecutive(pre) /\ consecutive(post)
               /\ \A j \in DOMAIN pre : pre[j].line_num < r.line_num
               /\ \A j \in DOMAIN post : post[j].line_num > last_line(r)

\* The text of a line without its terminator.
line_text(line) ==
    IF line # <<>> /\ line[Len(line)] = NL THEN slice(line, 0, Len(line) - 1) ELSE line

\* C10: every pre or post entry of every result names a line of the file, by a
\* number between 1 and the number of lines, and holds that line's text.
C10_ContextLinesExist ==
    (pc = "done" /\ outcome = "returned" /\ entry \in SearchEntries) =>
        \A i \in DOMAIN results :
            LET lines == readlines(fs.dirs[1].files[1].content)
                ctx == results[i].context.pre \o results[i].context.post
            IN \A j \in DOMAIN ctx :
                  /\ ctx[j].line_num \in 1..Len(lines)
                  /\ ctx[j].content = line_text(lines[ctx[j].line_num])

(***************************************************************************)
(* The file of a one-file tree, and where its lines begin and end.         *)
(***************************************************************************)
the_content == fs.dirs[1].files[1].content

\* The offset at which the line holding offset p begins.
line_begin(c, p) ==
    LET S == {i \in 1..p : c[i] = NL} IN
    IF S = {} THEN 0 ELSE CHOOSE i \in S : \A j \in S : j <= i

\* The offset at which the line holding offset q ends (its newline excluded).
line_finish(c, q) ==
    LET S == {i \in (q + 1)..Len(c) : c[i] = NL} IN
    IF S = {} THEN Len(c) ELSE (CHOOSE i \in S : \A j \in S : i <= j) - 1

newlines_before(c, p) == Cardinality({i \in 1..p : c[i] = NL})

snippet_done ==
    pc = "done" /\ outcome = "returned" /\ entry = "search_code_snippet"

\* C11: for a snippet with embedded newlines, the i-th result is that of the
\* i-th occurrence, at offset p of the file: line_num is 1 plus the number of
\* newlines before p, match.content is the text from the beginning of the
\* first line spanned to the end of the last, start_pos and end_pos are
\* relative to the beginning of the first line, and match.content sliced from
\* start_pos to end_pos is match_text.
C11_SnippetSpan ==
    (snippet_done /\ count_nl(pattern) >= 1) =>
        LET c == the_content
            ps == occurrences(c, 0, FALSE)
        IN /\ Len(results) = Len(ps)
           /\ \A i \in DOMAIN results :
                 LET r == results[i]
                     m == r.context.match
                     p == ps[i]
                     q == p + Len(pattern)
                 IN /\ r.line_num = 1 + newlines_before(c, p)
                    /\ m.line_num = r.line_num
                    /\ r.match_text = SubSeq(c, p + 1, q)
                    /\ m.content = SubSeq(c, line_begin(c, p) + 1, line_finish(c, q))
                    /\ m.start_pos = p - line_begin(c, p)
                    /\ m.end_pos = q - line_begin(c, p)
                    /\ m.end_pos <= Len(m.content)
                    /\ SubSeq(m.content, m.start_pos + 1, m.end_pos) = r.match_text

\* A snippet with a newline found past the beginning of a line that is not
\* the first.
C11_Witness ==
    /\ snippet_done /\ count_nl(pattern) >= 1
    /\ \E i \in DOMAIN results :
          /\ results[i].context.match.start_pos > 0
          /\ results[i].line_num > 1

\* The lines first..last of the file c as context entries.
file_lines(c, first, last) ==
    [j \in 1..(last - first + 1) |->
        [line_num |-> first + j - 1,
         content |-> line_text(readlines(c)[first + j - 1])]]

\* C12: the result of a snippet match spanning the lines s..e of a file of L
\* lines has, for the context size k, the lines max(1, s-k)..s-1 as pre and
\* the lines e+1..min(L, e+k) as post.
C12_SnippetWindow ==
    snippet_done =>
        LET c == the_content
            ps == occurrences(c, 0, FALSE)
            L == Len(readlines(c))
            k == snippet_context
        IN /\ Len(results) = Len(ps)
           /\ \A i \in DOMAIN results :
                 LET s == 1 + newlines_before(c, ps[i])
                     e == 1 + newlines_before(c, ps[i] + Len(pattern) - 1)
                 IN /\ results[i].context.pre = file_lines(c, Max(1, s - k), s - 1)
                    /\ results[i].context.post = file_lines(c, e + 1, Min(L, e + k))

regex_done ==
    pc = "done" /\ outcome = "returned" /\ entry = "search_by_regex" /\ compiles

\* The entries name the lines first..last of the file c, in order, each with
\* the text of its line (up to the blanks at its end).
names_lines(entries, c, first, last) ==
    /\ Len(entries) = Max(0, last - first + 1)
    /\ \A j \in DOMAIN entries :
          /\ entries[j].line_num = first + j - 1
          /\ rstrip(entries[j].content) = rstrip(readlines(c)[first + j - 1])

\* C13: the results of a regex search are those of the matches of the pattern
\* in the content of the file as it is: line_num is 1 plus the number of
\* newlines of the file before the match, match_text is the text matched, pre
\* holds the lines right before that line and, for a match within one line,
\* post the lines right after it.
C13_RegexLines ==
    regex_done =>
        LET c == the_content
            ms == finditer(re_parse(pattern), FALSE, c)
            L == Len(readlines(c))
            k == snippet_context
        IN /\ Len(results) = Len(ms)
           /\ \A i \in DOMAIN results :
                 LET r == results[i]
                     s == 1 + newlines_before(c, ms[i].start)
                 IN /\ r.line_num = s
                    /\ r.match_text = slice(c, ms[i].start, ms[i].end)
                    /\ names_lines(r.context.pre, c, Max(1, s - k), s - 1)
                    /\ count_nl(r.match_text) = 0 =>
                          names_lines(r.context.post, c, s + 1, Min(L, s + k))

anchored == \E i \in DOMAIN pattern : pattern[i] \in {"^", "$"}

\* The lines of the file c whose text holds a match of the pattern.
matching_lines(c) ==
    {j \in 1..Len(readlines(c)) :
        finditer(re_parse(pattern), FALSE, line_text(readlines(c)[j])) # <<>>}

\* C14: the lines on which a regex search of a file that is not empty reports
\* a pattern anchored with ^ or $ are exactly the lines of the file whose text
\* satisfies the pattern.
C14_AnchorsPerLine ==
    (regex_done /\ anchored /\ the_content # <<>>) =>
        {results[i].line_num : i \in DOMAIN results} = matching_lines(the_content)

(***************************************************************************)
(* The tree get_file_structure returns.                                    *)
(***************************************************************************)
structure_done ==
    pc = "done" /\ outcome = "returned" /\ entry = "get_file_structure" /\ fs.exists

\* The Directory nodes of the tree below (and including) node.
RECURSIVE dir_nodes(_)
dir_nodes(node) ==
    {node} \cup UNION {dir_nodes(node.children[j]) :
                          j \in {i \in DOMAIN node.children :
                                    node.children[i].type = "directory"}}

listed_dirs(node) ==
    {node.children[j].name :
        j \in {i \in DOMAIN node.children : node.children[i].type = "directory"}}

listed_files(node) ==
    {node.children[j].name :
        j \in {i \in DOMAIN node.children : node.children[i].type = "file"}}

\* The depth of directory d, 0 for the root.
RECURSIVE depth(_, _)
depth(dirs, d) == IF dirs[d].parent = 0 THEN 0 ELSE 1 + depth(dirs, dirs[d].parent)

sub_dirs(d) == {c \in DOMAIN fs.dirs : fs.dirs[c].parent = d}

\* The file passes the type filter: there is no filter, or its extension is
\* one of those of a tag of the filter.
passes_filter(f) ==
    \/ file_types = <<>>
    \/ lower_str(f.ext) \in UNION {_get_file_extensions(file_types[i]) : i \in DOMAIN file_types}

accepted_files(d) ==
    {fs.dirs[d].files[j].path :
        j \in {i \in DOMAIN fs.dirs[d].files : passes_filter(fs.dirs[d].files[i])}}

\* The node lists each sub-directory and each accepted file of its directory
\* once, and nothing else.
expanded(node) ==
    /\ listed_dirs(node) = sub_dirs(node.name)
    /\ listed_files(node) = accepted_files(node.name)
    /\ Len(node.children) = Cardinality(sub_dirs(node.name))
                            + Cardinality(accepted_files(node.name))

\* C15: in the tree get_file_structure returns, every directory of depth below
\* max_depth has a node that is expanded, every directory of depth max_depth
\* (and the root, whatever max_depth) has a node, and the node of a directory
\* of depth max_depth or more has no children.
C15_DepthCap ==
    structure_done =>
        \A d \in DOMAIN fs.dirs :
            LET nodes == {n \in dir_nodes(structure) : n.name = d}
                dd == depth(fs.dirs, d)
            IN /\ (dd <= max_depth \/ d = 1) => Cardinality(nodes) = 1
               /\ \A n \in nodes :
                     IF dd < max_depth THEN expanded(n) ELSE n.children = <<>>

file_name(p) == SubSeq(p, rfind(p, "/") + 1, Len(p))

\* The last dot-suffix of the path: the shortest end of its file name that
\* begins with a dot, provided something other than dots comes before it in
\* the file name; empty when there is none.
last_suffix(p) ==
    LET nm == file_name(p)
        S == {i \in 1..Len(nm) :
                 /\ nm[i] = "."
                 /\ \A j \in (i + 1)..Len(nm) : nm[j] # "."
                 /\ \E j \in 1..(i - 1) : nm[j] # "."}
    IN IF S = {} THEN <<>> ELSE SubSeq(nm, CHOOSE i \in S : TRUE, Len(nm))

\* The suffix, compared without regard to case, belongs to the set: of the
\* suffixes of the paths of the model only ".py" and ".PY" are extensions of
\* the table.
suffix_in(e, exts) == e \in {<<".", "py">>, <<".", "PY">>} /\ ".py" \in exts

types_done == pc = "done" /\ entry = "_is_file_type_matched"

\* C17: _is_file_type_matched returns true for an empty list of tags, and
\* otherwise true iff the last dot-suffix of the path, compared without regard
\* to case, is in the union of the extension sets of the tags, an unknown tag
\* having the empty set; it always returns.
C17_TypeMatch ==
    types_done =>
        /\ outcome = "returned"
        /\ ret = \/ file_types = <<>>
                 \/ suffix_in(last_suffix(pattern),
                              UNION {_get_file_extensions(file_types[i]) :
                                        i \in DOMAIN file_types})

\* A path of several dots in an upper-case extension matched by the second
\* tag of a filter whose first tag is unknown.
C17_Witness ==
    /\ types_done /\ ret = TRUE
    /\ Len(file_types) = 2 /\ _get_file_extensions(file_types[1]) = {}
    /\ Cardinality({i \in DOMAIN pattern : pattern[i] = "."}) >= 2
    /\ pattern[Len(pattern)] = "PY"

(***************************************************************************)
(* utils.py: the cache.                                                    *)
(***************************************************************************)
\* The set() of the key in force: made last, no delete() of the key and no
\* clear() since, and no more than its ttl (the default when it is None)
\* seconds ago.
in_force(key) ==
    LET h == last_set[key] IN
    /\ h.live
    /\ now - h.at <= (IF h.ttl = NoTtl THEN default_ttl ELSE h.ttl[1])

\* C18: get(k) returns the value of the set(k, v, ttl) in force, None when
\* there is none, and size() returns the number of keys with a set in force.
C18_CacheGet ==
    /\ op.name = "get" =>
          ret = (IF in_force(op.key) THEN last_set[op.key].value ELSE None)
    /\ op.name = "size" =>
          ret = Cardinality({k \in CacheKeys : in_force(k)})

(***************************************************************************)
(* utils.py: @cached.                                                      *)
(***************************************************************************)
\* The ttl of the decorator in seconds, the default of the cache when None.
wrap_seconds == IF wrap_ttl = NoTtl THEN default_ttl ELSE wrap_ttl[1]

\* C19: a call of a wrapped function with the arguments of an execution made
\* less than ttl seconds before returns the result of that execution and
\* does not execute the function, whatever the result; a call with arguments
\* never used before, or made more than ttl seconds after the last execution
\* with them, executes the function.  (In SpecCached the steps that leave
\* the clock alone are the calls.)
C19_CachedCalls ==
    [][now' = now /\ op'.name = "call" =>
          LET c == <<op'.func, op'.args>>
              known == c \in DOMAIN last_exec
              age == now - last_exec[c].at
          IN /\ (known /\ age < wrap_seconds) =>
                    (~op'.executed /\ ret' = last_exec[c].result)
             /\ (~known \/ age > wrap_seconds) => op'.executed]_vars

(***************************************************************************)
(* utils.py: RateLimiter.                                                  *)
(***************************************************************************)
\* The token count of a key: a key without a bucket has C tokens, a bucket
\* has its amount plus elapsed_time * r, capped at C.
token_count(key, buckets, time) ==
    IF key \notin DOMAIN buckets THEN capacity * Scale
    ELSE LET elapsed_time == time - buckets[key].last_refill
         IN Min(capacity * Scale, buckets[key].tokens + elapsed_time * refill_rate)

\* The stored amount of every bucket is within [0, C].
within_capacity ==
    \A key \in DOMAIN tokens :
        tokens[key].tokens >= 0 /\ tokens[key].tokens <= capacity * Scale

\* A call of is_allowed answers whether the key has a token, removes one
\* token of the key when it has, and leaves every other count as it was.
is_allowed_step ==
    (op'.name = "is_allowed" /\ log' # log) =>
        LET key == op'.key
            before == token_count(key, tokens, now)
        IN /\ ret' = (before >= Scale)
           /\ token_count(key, tokens', now') =
                  (IF before >= Scale THEN before - Scale ELSE before)
           /\ \A other \in LimiterKeys \ {key} :
                  token_count(other, tokens', now') = token_count(other, tokens, now)

\* The is_allowed calls of a key since the limiter was fresh or cleared.
requests(key) == SelectSeq(log, LAMBDA e : e.key = key)

\* The number of calls made at the time of the first one.
first_burst(L) == Cardinality({i \in 1..Len(L) : L[i].at = L[1].at})

\* With no time passing, exactly the first C requests of a key are allowed.
burst_allowed ==
    \A key \in LimiterKeys :
        LET L == requests(key) IN
        \A i \in 1..Len(L) :
            L[i].at = L[1].at => (L[i].ok <=> i <= capacity)

\* 1/r seconds after a burst of C or more requests exactly one more request
\* is allowed.
one_more_allowed ==
    \A key \in LimiterKeys :
        LET L == requests(key) IN
        \A i \in 1..Len(L) :
            LET later == L[1].at + (Scale \div refill_rate) IN
            ( /\ Scale % refill_rate = 0
              /\ first_burst(L) >= capacity
              /\ L[i].at = later
              /\ \A j \in 1..i : L[j].at \in {L[1].at, later} )
            => (L[i].ok <=> i = first_burst(L) + 1)

\* C20 as stated: for every capacity C, each key's token count stays within
\* [0, C]; is_allowed returns true and removes one token iff the refilled
\* count has a token, and otherwise returns false and leaves the count;
\* from a fresh or cleared limiter with no time passing exactly the first C
\* requests of a key are allowed, and after 1/r seconds exactly one more.
C20_AsStated ==
    /\ [](within_capacity /\ burst_allowed /\ one_more_allowed)
    /\ [][is_allowed_step]_vars

\* C20, amended: the same, where one more request is allowed after 1/r
\* seconds when the capacity is at least one token (a limiter of capacity 0
\* never allows a request).
C20_RateLimiter ==
    /\ [](within_capacity /\ burst_allowed /\ (capacity >= 1 => one_more_allowed))
    /\ [][is_allowed_step]_vars

\* C20 witness: a limiter of the largest capacity refilling half a token per
\* second allowed C requests of key "a", refused the next, allowed one more
\* 1/r seconds later and refused the one after it.
C20_Witness ==
    LET L == requests("a") IN
    /\ capacity = MaxCapacity /\ refill_rate = 1
    /\ Len(L) = capacity + 3
    /\ \A i \in 1..Len(L) :
           /\ L[i].at = (IF i <= capacity + 1 THEN L[1].at ELSE L[1].at + Scale)
           /\ L[i].ok <=> (i <= capacity \/ i = capacity + 2)
    /\ op.name = "is_allowed" /\ ret = FALSE

(***************************************************************************)
(* utils.py: validate_path.                                                *)
(***************************************************************************)
\* The components of a path that name something: not empty, not ".".
components(p) ==
    SelectSeq(str_split(p, SEP), LAMBDA c : c # <<>> /\ c # <<".">>)

\* The directory reached from the components `at` by walking `comps`:
\* ".." goes to the parent, and the root is its own parent.
RECURSIVE walk_from(_, _)
walk_from(at, comps) ==
    IF comps = <<>> THEN at
    ELSE IF Head(comps) = <<".", ".">>
    THEN walk_from(IF at = <<>> THEN at ELSE SubSeq(at, 1, Len(at) - 1), Tail(comps))
    ELSE walk_from(Append(at, Head(comps)), Tail(comps))

\* The allowed directory, from the working directory.
allowed_location(allowed_dir) ==
    walk_from(IF isabs(allowed_dir) THEN <<>> ELSE components(cwd), components(allowed_dir))

\* The path resolved against the allowed directory.
resolved_location(path, allowed_dir) ==
    walk_from(IF isabs(path) THEN <<>> ELSE allowed_location(allowed_dir), components(path))

\* The location is the allowed directory or lies inside it.
inside(loc, base) == Len(base) <= Len(loc) /\ SubSeq(loc, 1, Len(base)) = base

has_dotdot(path) ==
    \E i \in 1..Len(str_split(path, SEP)) : str_split(path, SEP)[i] = <<".", ".">>

validate_done == op.name \in {"validate_path", "_validate_path"}

\* C21: validate_path and VCSManager._validate_path return true only if the
\* path resolved against the allowed directory is that directory or lies
\* inside it, and return false for every path with a ".." component and for
\* every absolute path outside the allowed directory.
C21_ValidatePath ==
    validate_done =>
        LET loc == resolved_location(arg.path, arg.allowed_dir)
            base == allowed_location(arg.allowed_dir)
        IN /\ ret = TRUE => inside(loc, base)
           /\ has_dotdot(arg.path) => ret = FALSE
           /\ (isabs(arg.path) /\ ~inside(loc, base)) => ret = FALSE

(***************************************************************************)
(* utils.py: sanitize_filename.                                            *)
(***************************************************************************)
sanitize_done == op.name = "sanitize_filename"

endswith(s, suffix) ==
    /\ Len(suffix) <= Len(s)
    /\ SubSeq(s, Len(s) - Len(suffix) + 1, Len(s)) = suffix

\* The extension of the input, when sanitizing leaves its characters alone.
input_extension ==
    LET e == splitext(strip(arg.filename)) IN
    IF \A i \in 1..Len(e) : e[i] \notin UnsafeChars \cup {" ", "_"} THEN e ELSE <<>>

\* The input had to be shortened: cleaned of unsafe characters it is longer
\* than 255 characters.
shortened ==
    LET replaced == replace_space(sub_unsafe(strip(arg.filename)))
    IN Len(sub_underscores(replaced, 1, Len(replaced))) > 255

\* C22: for every input, sanitize_filename returns a name of at most 255
\* characters without any of < > : " / \ | ? * and without a space, which
\* still ends with the extension of the input when the input was shortened.
C22_Sanitize ==
    sanitize_done =>
        /\ Len(ret) <= 255
        /\ \A i \in 1..Len(ret) : ret[i] \notin UnsafeChars \cup {" "}
        /\ shortened => endswith(ret, input_extension)

(***************************************************************************)
(* vcs.py: get_status.                                                     *)
(***************************************************************************)
status_done == op.name = "get_status" /\ arg.repo = "ok"

\* The paths of the lines "<code> <path>" with the given code, in order.
paths_with(code) ==
    LET chosen == SelectSeq(arg.lines, LAMBDA l : l.form = "code path" /\ l.code = code)
    IN [i \in 1..Len(chosen) |-> chosen[i].path]

\* C23: when every line of the git status output is blank or of the form
\* "<code> <path>" with code M, A, D or ??, each list of get_status holds the
\* complete paths of the lines with its code, and nothing else.
C23_StatusLists ==
    (status_done /\ \A i \in 1..Len(arg.lines) : arg.lines[i].form # "porcelain") =>
        /\ ret.modified_files = paths_with(<<"M">>)
        /\ ret.added_files = paths_with(<<"A">>)
        /\ ret.deleted_files = paths_with(<<"D">>)
        /\ ret.untracked_files = paths_with(<<"?", "?">>)

(***************************************************************************)
(* code_search.py: the three search modes side by side.                    *)
(***************************************************************************)
\* A single-line literal without regex metacharacters.
plain_literal(pat) ==
    pat # <<>> /\ \A i \in 1..Len(pat) : pat[i] \notin {NL, ".", "(", "^", "$"}

\* What the entry point e returns for the arguments of the finished call.
same_call(e) ==
    search_tree(e, walk_dirs, pattern, TRUE, snippet_context, max_results, file_types)

\* C24: for a single-line literal pattern without regex metacharacters,
\* searched case-sensitively on the same tree with the same context size and
\* cap, keyword search, snippet search and regex search return the same
\* sequence of results (paths, line numbers, match texts, positions, match
\* line contents, and the pre and post lists).
C24_ModeIndependent ==
    (searched /\ outcome = "returned" /\ case_sensitive /\ plain_literal(pattern)) =>
        \A e \in SearchEntries :
            same_call(e) = [results |-> results, status |-> "returned"]

(***************************************************************************)
(* code_search.py: get_file_structure on directories that fail and links.  *)
(***************************************************************************)
listing_done == pc = "done" /\ entry = "get_file_structure" /\ "nodes" \in DOMAIN fs

\* The entries of directory d found before a permission error: all of them,
\* or those before the first file whose size cannot be read.
found_before_error(d) ==
    LET items == fs.nodes[d].items
        failing == {j \in 1..Len(items) :
                       items[j].type = "file" /\ items[j].stat = "PermissionError"}
    IN IF fs.nodes[d].listdir = "PermissionError" THEN 0
       ELSE IF failing = {} THEN Len(items)
       ELSE (CHOOSE j \in failing : \A i \in failing : j <= i) - 1

\* The Directory node of directory d, entry `name` of its parent, at the
\* given depth: below the depth cap it holds, in order, the node of every
\* entry found before a permission error.
RECURSIVE expected_node(_, _, _)
expected_node(d, name, at_depth) ==
    [name |-> name, type |-> "directory",
     children |->
         IF at_depth > max_depth THEN <<>>
         ELSE [j \in 1..found_before_error(d) |->
                  IF fs.nodes[d].items[j].type = "directory"
                  THEN expected_node(fs.nodes[d].items[j].target, j, at_depth + 1)
                  ELSE [name |-> j, type |-> "file", children |-> <<>>]]]

\* C25: a permission error while listing a directory is not fatal: the call
\* returns the tree, in which the directory is a Directory node holding the
\* children found before the error, and every other directory (its siblings
\* and ancestors) is reported as without the error.
C25_ListingFailsSoft ==
    listing_done => (outcome = "returned" /\ structure = expected_node(1, 0, 0))

\* C25 witness: the root lists the directory 2 and then a file; the listing
\* of 2 fails, and the tree returned holds the empty node of 2 and the file.
C25_Witness ==
    /\ listing_done /\ max_depth >= 1
    /\ fs.nodes[2].listdir = "PermissionError"
    /\ Len(fs.nodes[1].items) = 2
    /\ fs.nodes[1].items[1] = [type |-> "directory", stat |-> "ok", target |-> 2]
    /\ fs.nodes[1].items[2].type = "file"
    /\ structure.children = <<[name |-> 1, type |-> "directory", children |-> <<>>],
                              [name |-> 2, type |-> "file", children |-> <<>>]>>

\* The depth of the deepest node below (and including) node, 0 for itself.
RECURSIVE node_depth(_)
node_depth(node) ==
    IF node.children = <<>> THEN 0
    ELSE 1 + (CHOOSE m \in {node_depth(node.children[j]) : j \in DOMAIN node.children} :
                 \A j \in DOMAIN node.children : node_depth(node.children[j]) <= m)

RECURSIVE text_room(_, _)
text_room(files, i) ==
    IF i > Len(files) THEN 1
    ELSE 2 * Len(files[i].content) + 2 + text_room(files, i + 1)

no_cap == text_room(tree_files(walk_dirs), 1)

\* The call of the finished search with no cap in its way.
uncapped_call ==
    search_tree(entry, walk_dirs, pattern, case_sensitive, snippet_context,
                no_cap, file_types)

\* Each file is opened once, and the results of one file stand together.
once_and_contiguous ==
    /\ \A i, j \in DOMAIN opened : opened[i] = opened[j] => i = j
    /\ \A i, j \in DOMAIN results :
          (i < j /\ results[i].file_path = results[j].file_path) =>
              \A m \in i..j : results[m].file_path = results[i].file_path

\* C26: in every search mode, the list a search returns with cap N is the
\* first N entries of the list the same search returns with no cap, each
\* file being visited once at most and its results standing together.
C26_CapIsPrefix ==
    (searched /\ outcome = "returned") =>
        /\ uncapped_call.status = "returned"
        /\ results = slice(uncapped_call.results, 0, max_results)
        /\ once_and_contiguous

(***************************************************************************)
(* Concurrent calls of is_allowed.                                         *)
(***************************************************************************)
\* The calls that have returned true so far.
allowed_calls == Cardinality({i \in DOMAIN log : log[i].ok})

\* C29: while several threads call is_allowed for one key and no time
\* elapses, the calls that return true never outnumber the tokens the key
\* had before them, and the key's token count never drops below 0.
C29_AtomicTake ==
    /\ allowed_calls * Scale <= arg.available
    /\ \A key \in DOMAIN tokens : tokens[key].tokens >= 0

(***************************************************************************)
(* The directory of a repository.                                          *)
(***************************************************************************)
repo_path_done == op.name \in {"vcs_operation", "search_tool"}

\* The directory the path names, from the working directory.
path_location(p) ==
    walk_from(IF isabs(p) THEN <<>> ELSE components(cwd), components(p))

\* C27: for every owner and repo, a VCSManager operation that passes its
\* path check, and a search tool of main.py, works on a directory inside the
\* configured local repository directory.
C27_RepoInside ==
    (repo_path_done /\ ~ret.raised) =>
        inside(path_location(ret.repo_path), path_location(arg.local_repo_dir))

(***************************************************************************)
(* clone_repo and the exceptions of the clone.                             *)
(***************************************************************************)
clone_done == proc.pc = "done"

\* C28: once the path check has passed, clone_repo never raises: whatever
\* the deletion of an existing copy or the clone raises, the call returns
\* success = false, and it returns success = true only if the clone
\* completed.
C28_CloneNeverRaises ==
    clone_done => /\ ret.outcome = "returned"
                  /\ ret.success => proc.cloned
                  /\ (arg.clone_from # "ok") => ~ret.success
====
